---- MODULE Spec2Model ----
(***************************************************************************)
(* Token-based mutual exclusion of DC_Game: the queued TokenManager used   *)
(* for the hint and skip resources, the RaymondServer leaderboard manager  *)
(* and the DeadlockDetector that polls the hint and skip managers.         *)
(*                                                                         *)
(* Every manager method runs under the manager's own lock, so one method   *)
(* call is one atomic step.  check_for_deadlocks holds no lock across its  *)
(* calls, so it is three steps: get_status(hint), get_status(skip) with    *)
(* the decision, and force_release_token on the hint manager.              *)
(*                                                                         *)
(* time.time() is the variable now; it advances by Tick.  Client ids are   *)
(* non-empty strings (truthy in Python), None is the value None.           *)
(*                                                                         *)
(* Spec         one TokenManager, any sequence of its method calls         *)
(* SpecQueues   Spec and the RaymondServer                                 *)
(* SpecDetector the hint and skip managers and check_for_deadlocks         *)
(* SpecTimeWarp the TimeWarpManager and its timers                         *)
(* SpecRicart   the timer-based RicartAgrawala and its timers              *)
(* SpecRicartLive  SpecRicart with a fair clock and fair timers            *)
(* SpecSimple   the lock-free managers (LeaderboardToken, the simple       *)
(*              RicartAgrawala), one call after the other                  *)
(* SpecRace     LeaderboardToken called by concurrent threads, one         *)
(*              statement per step                                         *)
(* SpecClock    one LogicalClock, one call after the other                 *)
(* SpecThreads  one LogicalClock called by concurrent threads              *)
(* SpecNtp      the offset estimators of server and client                 *)
(* SpecLoop     the DeadlockDetector with its background thread, fair      *)
(* SpecManagers the TokenManager, RaymondServer and LeaderboardToken      *)
(* SpecFair     Spec in which every holder eventually releases            *)
(* SpecTicks    the hint and skip managers and a fair detection loop      *)
(* SpecSnapshots  SpecDetector with the history of the circular wait       *)
(***************************************************************************)
EXTENDS Integers, Sequences, FiniteSets, TLC

\* ---------------------------------------------------------------- bounds
\* Largest value of the clock.
MaxTime == 30
\* Amount by which one Tick advances the clock.
TickStep == 15

\* Largest value of the clock in the time-warp specifications.
MaxWarpTime == 135
\* Amount by which one TickWarp advances the clock.
WarpTickStep == 45

\* Largest timestamp handed to the timer-based RicartAgrawala.
MaxTimestamp == 4
\* Largest timestamp handed out in the liveness specification.
MaxLiveTimestamp == 2
\* Longest deferred_replies list of the timer-based RicartAgrawala.
MaxDeferred == 2

\* Largest value of a LogicalClock before its calls stop.
MaxCounter == 14
\* Largest timestamp a thread passes to sync.
MaxReceived == 2
\* Largest value of the clock in the offset-estimator specifications, and
\* largest instant passed to the estimators.
MaxNtpTime == 6
MaxStamp == 5
\* Largest instant of the server's clock in an exchange.
MaxServerStamp == 2
\* Largest number of start() calls of the DeadlockDetector.
MaxStarts == 2

\* ------------------------------------------------------------- constants
\* cooldown_duration=30, the default of TokenManager and RaymondServer.
CooldownDuration == 30
\* "Estimate 5 seconds per client" in TokenManager.request_token.
SecondsPerClient == 5

\* duration=90 and cooldown=120, the defaults of TimeWarpManager.
WarpDuration == 90
WarpCooldown == 120

\* cs_duration = 90 and cooldown_duration = 120 of the timer-based
\* RicartAgrawala.
CsDuration == 90
CsCooldown == 120
\* cs_timestamp and cs_start_time are None while the section is free.
NoStamp == -1

\* cooldown_period = 30 of LeaderboardToken.
CooldownPeriod == 30
\* duration = 30 of the simple RicartAgrawala.
SimpleDuration == 30

\* The delay threshold 5.0 of the offset estimators.
DelayThreshold == 5

Clients == {"A", "B", "C"}
None == "None"
Resources == {"hint", "skip"}

\* Python dict() / {} : a function with an empty domain.
EmptyDict == [c \in {} |-> 0]
\* dict.pop(k): the dict without key k.
DictPop(d, k) == [c \in (DOMAIN d) \ {k} |-> d[c]]
\* d[k] = v
DictSet(d, k, v) == [c \in (DOMAIN d) \cup {k} |-> IF c = k THEN v ELSE d[c]]

\* Mutant of IndexFrom: the index is counted from 1.
RECURSIVE IndexFrom_one_based(_, _, _)
IndexFrom_one_based(q, c, i) ==
    IF i > Len(q) THEN -2
    ELSE IF q[i] = c THEN i
    ELSE IndexFrom_one_based(q, c, i + 1)

\* position = None of request_token, as an integer no index equals.
NoPosition == -2
\* 0-based index of the first occurrence of c in q, NoPosition when absent
\* (the enumerate loop of request_token).
RECURSIVE IndexFrom(_, _, _)
IndexFrom(q, c, i) ==
    IF i > Len(q) THEN NoPosition
    ELSE IF q[i] = c THEN i - 1
    ELSE IndexFrom(q, c, i + 1)

QueueIndex(q, c) == IndexFrom(q, c, 1)

\* The set of the members of a queue.
Members(q) == {q[i] : i \in 1..Len(q)}

\* ------------------------------------------------------- TokenManager
\* The fields of a TokenManager.  token_acquired_time is assigned by the
\* grant and release paths and read by no method, so it is not part of the
\* state; resource_name and cooldown_duration never change.
TokenManager_init ==
    [token_holder |-> None,
     request_queue |-> <<>>,
     cooldowns |-> EmptyDict,
     pending_requests |-> {}]

\* Mutant of InCooldown: the comparison is the wrong way round.
InCooldown_inverted(cd, c, t) == c \in DOMAIN cd /\ t > cd[c]

\* Lines 33-41 of request_token: TRUE when the request is refused.
InCooldown(cd, c, t) == c \in DOMAIN cd /\ t < cd[c]

\* Lines 39-41: an expired entry is popped.
ExpireCooldown(cd, c, t) ==
    IF c \in DOMAIN cd /\ ~(t < cd[c]) THEN DictPop(cd, c) ELSE cd

\* Mutant of TokenIsFree: the holder slot is not looked at.
TokenIsFree_ignores_holder(s) == s.request_queue = <<>>

\* Line 60: the token can be granted at once.
TokenIsFree(s) == s.token_holder = None /\ s.request_queue = <<>>

\* Lines 61-65: the token is granted.
GrantToken(s, c, t) ==
    [s EXCEPT !.token_holder = c,
              !.pending_requests = @ \cup {c}]

\* Mutant of EnqueueClient: the client is not marked pending.
EnqueueClient_not_pending(s, c) ==
    [s EXCEPT !.request_queue = Append(@, c)]

\* Mutant of EnqueueClient: appendleft() instead of append().
EnqueueClient_at_front(s, c) ==
    [s EXCEPT !.request_queue = <<c>> \o @,
              !.pending_requests = @ \cup {c}]

\* Lines 66-69: the client joins the tail of the queue.
EnqueueClient(s, c) ==
    [s EXCEPT !.request_queue = Append(@, c),
              !.pending_requests = @ \cup {c}]

\* request_token(client_id) at time t: the new state and the returned
\* (granted, position, wait_time).
TokenManager_request_token(s, c, t) ==
    IF InCooldown(s.cooldowns, c, t)
    THEN [state |-> s,
          granted |-> FALSE, position |-> -1,
          wait_time |-> s.cooldowns[c] - t]
    ELSE LET s1 == [s EXCEPT !.cooldowns = ExpireCooldown(@, c, t)]
             pos == QueueIndex(s1.request_queue, c)
         IN  IF c \in s1.pending_requests /\ pos # NoPosition
             THEN [state |-> s1,
                   granted |-> FALSE, position |-> pos,
                   wait_time |-> pos * SecondsPerClient]
             ELSE IF c \in s1.pending_requests /\ s1.token_holder = c
             THEN [state |-> s1,
                   granted |-> TRUE, position |-> 0, wait_time |-> 0]
             ELSE IF TokenIsFree(s1)
             THEN [state |-> GrantToken(s1, c, t),
                   granted |-> TRUE, position |-> 0, wait_time |-> 0]
             ELSE LET s2 == EnqueueClient(s1, c)
                      p == Len(s2.request_queue) - 1
                  IN  [state |-> s2,
                       granted |-> FALSE, position |-> p,
                       wait_time |-> p * SecondsPerClient]

\* Mutant of DrainQueue: the promoted client is read, not popped.
RECURSIVE DrainQueue_keeps_head(_, _, _, _)
DrainQueue_keeps_head(q, cd, pend, t) ==
    IF q = <<>>
    THEN [next_holder |-> None, request_queue |-> q,
          cooldowns |-> cd, pending_requests |-> pend]
    ELSE LET next_client == Head(q)
         IN  IF InCooldown(cd, next_client, t)
             THEN DrainQueue_keeps_head(Tail(q), cd, pend \ {next_client}, t)
             ELSE [next_holder |-> next_client,
                   request_queue |-> q,
                   cooldowns |-> ExpireCooldown(cd, next_client, t),
                   pending_requests |-> pend]

\* Mutant of DrainQueue: pop() instead of popleft(), the queue is served
\* from its tail.
RECURSIVE DrainQueue_from_tail(_, _, _, _)
DrainQueue_from_tail(q, cd, pend, t) ==
    IF q = <<>>
    THEN [next_holder |-> None, request_queue |-> q,
          cooldowns |-> cd, pending_requests |-> pend]
    ELSE LET next_client == q[Len(q)]
             rest == SubSeq(q, 1, Len(q) - 1)
         IN  IF InCooldown(cd, next_client, t)
             THEN DrainQueue_from_tail(rest, cd, pend \ {next_client}, t)
             ELSE [next_holder |-> next_client,
                   request_queue |-> rest,
                   cooldowns |-> ExpireCooldown(cd, next_client, t),
                   pending_requests |-> pend]

\* Lines 93-110 of release_token: the drain loop.  Pops clients from the
\* front; a client with an unexpired cooldown is dropped from the pending
\* set and skipped, the first other client becomes next_holder.
RECURSIVE DrainQueue(_, _, _, _)
DrainQueue(q, cd, pend, t) ==
    IF q = <<>>
    THEN [next_holder |-> None, request_queue |-> q,
          cooldowns |-> cd, pending_requests |-> pend]
    ELSE LET next_client == Head(q)
         IN  IF InCooldown(cd, next_client, t)
             THEN DrainQueue(Tail(q), cd, pend \ {next_client}, t)
             ELSE [next_holder |-> next_client,
                   request_queue |-> Tail(q),
                   cooldowns |-> ExpireCooldown(cd, next_client, t),
                   pending_requests |-> pend]

\* Mutant of TokenManager_release_token: the cooldown is recorded before
\* the holder test.
TokenManager_release_token_stamps_first(s, c, t) ==
    IF s.token_holder # c
    THEN [state |-> [s EXCEPT !.cooldowns =
                        DictSet(@, c, t + CooldownDuration)],
          success |-> FALSE, next_holder |-> None]
    ELSE LET cd == DictSet(s.cooldowns, c, t + CooldownDuration)
             d == DrainQueue(s.request_queue, cd,
                             s.pending_requests \ {c}, t)
         IN  [state |->
                [token_holder |-> d.next_holder,
                 request_queue |-> d.request_queue,
                 cooldowns |-> d.cooldowns,
                 pending_requests |-> d.pending_requests],
              success |-> TRUE, next_holder |-> d.next_holder]

\* Mutant of TokenManager_release_token: no cooldown is recorded.
TokenManager_release_token_no_cooldown(s, c, t) ==
    IF s.token_holder # c
    THEN [state |-> s, success |-> FALSE, next_holder |-> None]
    ELSE LET d == DrainQueue(s.request_queue, s.cooldowns,
                             s.pending_requests \ {c}, t)
         IN  [state |->
                [token_holder |-> d.next_holder,
                 request_queue |-> d.request_queue,
                 cooldowns |-> d.cooldowns,
                 pending_requests |-> d.pending_requests],
              success |-> TRUE, next_holder |-> d.next_holder]

\* release_token(client_id) at time t: the new state and the returned
\* (success, next_holder).
TokenManager_release_token(s, c, t) ==
    IF s.token_holder # c
    THEN [state |-> s, success |-> FALSE, next_holder |-> None]
    ELSE LET cd == DictSet(s.cooldowns, c, t + CooldownDuration)
             d == DrainQueue(s.request_queue, cd,
                             s.pending_requests \ {c}, t)
         IN  [state |->
                [token_holder |-> d.next_holder,
                 request_queue |-> d.request_queue,
                 cooldowns |-> d.cooldowns,
                 pending_requests |-> d.pending_requests],
              success |-> TRUE, next_holder |-> d.next_holder]

\* Mutant of TokenManager_force_release_token: the queue head is popped
\* and returned, the holder slot is not assigned.
TokenManager_force_release_token_keeps_holder(s) ==
    LET prev == s.token_holder
        pend == IF prev # None THEN s.pending_requests \ {prev}
                ELSE s.pending_requests
    IN  IF s.request_queue # <<>>
        THEN [state |->
                [s EXCEPT !.pending_requests = pend,
                          !.request_queue = Tail(s.request_queue)],
              previous_holder |-> prev,
              next_holder |-> Head(s.request_queue)]
        ELSE [state |->
                [s EXCEPT !.pending_requests = pend,
                          !.token_holder = None],
              previous_holder |-> prev, next_holder |-> None]

\* Mutant of TokenManager_force_release_token: the token is taken from
\* the holder and given to nobody, the queue is left as it is.
TokenManager_force_release_token_drops_token(s) ==
    LET prev == s.token_holder
        pend == IF prev # None THEN s.pending_requests \ {prev}
                ELSE s.pending_requests
    IN  [state |->
           [s EXCEPT !.pending_requests = pend,
                     !.token_holder = None],
         previous_holder |-> prev, next_holder |-> None]

\* force_release_token(): the new state and the returned
\* (previous_holder, next_holder).
TokenManager_force_release_token(s) ==
    LET prev == s.token_holder
        pend == IF prev # None THEN s.pending_requests \ {prev}
                ELSE s.pending_requests
    IN  IF s.request_queue # <<>>
        THEN [state |->
                [s EXCEPT !.pending_requests = pend,
                          !.token_holder = Head(s.request_queue),
                          !.request_queue = Tail(s.request_queue)],
              previous_holder |-> prev,
              next_holder |-> Head(s.request_queue)]
        ELSE [state |->
                [s EXCEPT !.pending_requests = pend,
                          !.token_holder = None],
              previous_holder |-> prev, next_holder |-> None]

\* get_status(): the snapshot the detector reads.
TokenManager_get_status(s) ==
    [holder |-> s.token_holder, queue |-> s.request_queue]

\* ------------------------------------------------------ RaymondServer
RaymondServer_init ==
    [has_token |-> TRUE,
     current_holder |-> None,
     queue |-> <<>>,
     cooldowns |-> EmptyDict]

\* request_token(client_id, timestamp) at time t: the new state and the
\* returned (granted, position, message).  The timestamp argument is not
\* used by the method.  A message that embeds a number is the pair of its
\* text and the number.
RaymondServer_request_token(s, c, t) ==
    IF InCooldown(s.cooldowns, c, t)
    THEN [state |-> s, granted |-> FALSE, position |-> -1,
          message |-> <<"In cooldown for", s.cooldowns[c] - t>>]
    ELSE LET s1 == [s EXCEPT !.cooldowns = ExpireCooldown(@, c, t)]
         IN  IF s1.current_holder = c
             THEN [state |-> s1, granted |-> TRUE, position |-> 0,
                   message |-> <<"Token already held">>]
             ELSE IF c \in Members(s1.queue)
             THEN [state |-> s1, granted |-> FALSE,
                   position |-> QueueIndex(s1.queue, c),
                   message |-> <<"Already in queue at position",
                                 QueueIndex(s1.queue, c)>>]
             ELSE IF s1.has_token /\ s1.current_holder = None
             THEN [state |-> [s1 EXCEPT !.has_token = FALSE,
                                        !.current_holder = c],
                   granted |-> TRUE, position |-> 0,
                   message |-> <<"Token granted">>]
             ELSE LET s2 == [s1 EXCEPT !.queue = Append(@, c)]
                  IN  [state |-> s2, granted |-> FALSE,
                       position |-> Len(s2.queue) - 1,
                       message |->
                         IF Len(s2.queue) > 1 \/ s2.current_holder # None
                         THEN <<"Leaderboard requested by multiple players">>
                         ELSE <<"In queue">>]

\* Lines 84-98 of release_token: the drain loop of RaymondServer.
RECURSIVE RaymondServer_drain(_, _, _)
RaymondServer_drain(q, cd, t) ==
    IF q = <<>>
    THEN [next_holder |-> None, queue |-> q, cooldowns |-> cd]
    ELSE LET next_client == Head(q)
         IN  IF InCooldown(cd, next_client, t)
             THEN RaymondServer_drain(Tail(q), cd, t)
             ELSE [next_holder |-> next_client,
                   queue |-> Tail(q),
                   cooldowns |-> ExpireCooldown(cd, next_client, t)]

RaymondServer_release_token_stamps_next(s, c, t) ==
    IF s.current_holder # c
    THEN [state |-> s, success |-> FALSE, next_holder |-> None]
    ELSE LET d == RaymondServer_drain(s.queue, s.cooldowns, t)
         IN  [state |->
                [has_token |-> (d.next_holder = None),
                 current_holder |-> d.next_holder,
                 queue |-> d.queue,
                 cooldowns |-> IF d.next_holder = None
                               THEN DictSet(d.cooldowns, c,
                                            t + CooldownDuration)
                               ELSE DictSet(d.cooldowns, d.next_holder,
                                            t + CooldownDuration)],
              success |-> TRUE, next_holder |-> d.next_holder]

\* release_token(client_id) at time t: the new state and the returned
\* (success, next_holder).
RaymondServer_release_token(s, c, t) ==
    IF s.current_holder # c
    THEN [state |-> s, success |-> FALSE, next_holder |-> None]
    ELSE LET cd == DictSet(s.cooldowns, c, t + CooldownDuration)
             d == RaymondServer_drain(s.queue, cd, t)
         IN  [state |->
                [has_token |-> (d.next_holder = None),
                 current_holder |-> d.next_holder,
                 queue |-> d.queue,
                 cooldowns |-> d.cooldowns],
              success |-> TRUE, next_holder |-> d.next_holder]

\* ---------------------------------------------------- TimeWarpManager
\* self.lock is a threading.Lock, which is not reentrant: `with self.lock`
\* run by the thread that already holds the lock never returns.  A method
\* that reaches such a nested acquire is "blocked": it has changed nothing
\* yet, it never returns and it never releases the lock.
TimeWarpManager_init ==
    [active_warps |-> EmptyDict,
     cooldowns |-> EmptyDict]

SessionLive_never(s, c, t) == FALSE

\* The client has a stored session and its end instant has not passed.
SessionLive(s, c, t) ==
    /\ c \in DOMAIN s.active_warps
    /\ t < s.active_warps[c][2]

\* activate_time_warp(client_id) at time t: the new state, the returned
\* (success, remaining, message) and the timers started (a timer is the
\* pair of its arguments client_id, expected_end_time).
TimeWarpManager_activate_time_warp(s, c, t) ==
    IF c \in DOMAIN s.cooldowns /\ t < s.cooldowns[c]
    THEN [state |-> s, success |-> FALSE,
          remaining |-> s.cooldowns[c] - t,
          message |-> "In cooldown", timers |-> {}]
    ELSE IF SessionLive(s, c, t)
    THEN [state |-> s, success |-> TRUE,
          remaining |-> s.active_warps[c][2] - t,
          message |-> "Already active", timers |-> {}]
    ELSE [state |-> [s EXCEPT !.active_warps =
                        DictSet(@, c, <<t, t + WarpDuration>>)],
          success |-> TRUE, remaining |-> WarpDuration,
          message |-> "Time Warp activated",
          timers |-> {[client_id |-> c,
                       expected_end_time |-> t + WarpDuration]}]

TimeWarpManager_deactivate_time_warp_clears_all(s, c, t) ==
    IF c \notin DOMAIN s.active_warps
    THEN [state |-> s, success |-> FALSE]
    ELSE [state |-> [active_warps |-> EmptyDict,
                     cooldowns |-> DictSet(s.cooldowns, c, t + WarpCooldown)],
          success |-> TRUE]

\* deactivate_time_warp(client_id) at time t, entered with the lock free:
\* the new state and the returned success.
TimeWarpManager_deactivate_time_warp(s, c, t) ==
    IF c \notin DOMAIN s.active_warps
    THEN [state |-> s, success |-> FALSE]
    ELSE [state |-> [active_warps |-> DictPop(s.active_warps, c),
                     cooldowns |-> DictSet(s.cooldowns, c, t + WarpCooldown)],
          success |-> TRUE]

\* is_time_warp_active(client_id) at time t.  With a stored session whose
\* end has passed, line 98 calls deactivate_time_warp while the lock is
\* held: blocked.
TimeWarpManager_is_time_warp_active(s, c, t) ==
    IF c \in DOMAIN s.active_warps
    THEN IF t < s.active_warps[c][2]
         THEN [blocked |-> FALSE, active |-> TRUE,
               remaining |-> s.active_warps[c][2] - t]
         ELSE [blocked |-> TRUE, active |-> FALSE, remaining |-> 0]
    ELSE [blocked |-> FALSE, active |-> FALSE, remaining |-> 0]

\* _auto_deactivate_time_warp(client_id, expected_end_time): TRUE when the
\* callback reaches line 60, the call of deactivate_time_warp made while
\* the lock is held.
TimeWarpManager_auto_deactivate_blocks(s, c, expected_end_time) ==
    /\ c \in DOMAIN s.active_warps
    /\ s.active_warps[c][2] = expected_end_time

\* ------------------------------------------- RicartAgrawala (timer-based)
\* src/server/server.py.  requesting_clients is never read or written
\* after construction and is left out.  time.time() is seconds since the
\* epoch, so the truth value of cs_start_time is "is not None".
RicartAgrawala_init ==
    [in_critical_section |-> None,
     cs_timestamp |-> NoStamp,
     cs_start_time |-> NoStamp,
     deferred_replies |-> EmptyDict,
     cooldowns |-> EmptyDict]

RicartAgrawala_release_no_cooldown(s, c, t) ==
    [s EXCEPT !.in_critical_section = None,
              !.cs_timestamp = NoStamp,
              !.cs_start_time = NoStamp,
              !.deferred_replies = DictPop(@, c)]

\* _release_critical_section(client_id) at time t; the caller holds the
\* lock and the method takes none.
RicartAgrawala_release(s, c, t) ==
    [s EXCEPT !.cooldowns = DictSet(@, c, t + CsCooldown),
              !.in_critical_section = None,
              !.cs_timestamp = NoStamp,
              !.cs_start_time = NoStamp,
              !.deferred_replies = DictPop(@, c)]

\* The holder's time has run out (line 46).
HolderExpired(s, t) ==
    /\ s.cs_start_time # NoStamp
    /\ t - s.cs_start_time > CsDuration

\* Lines 57-67: the grant, with the timer it starts (a timer is its two
\* arguments and the instant from which it may run).
RicartAgrawala_grant(s, c, timestamp, t) ==
    [state |-> [s EXCEPT !.in_critical_section = c,
                         !.cs_timestamp = timestamp,
                         !.cs_start_time = t],
     success |-> TRUE, wait_reason |-> None, remaining |-> CsDuration,
     timers |-> {[client_id |-> c, timestamp |-> timestamp,
                  due |-> t + CsDuration]}]

\* request_critical_section(client_id, timestamp) at time t.
RicartAgrawala_request_critical_section(s, c, timestamp, t) ==
    IF c \in DOMAIN s.cooldowns /\ t < s.cooldowns[c]
    THEN [state |-> s, success |-> FALSE, wait_reason |-> "cooldown",
          remaining |-> s.cooldowns[c] - t, timers |-> {}]
    ELSE IF s.in_critical_section # None
    THEN IF HolderExpired(s, t)
         THEN RicartAgrawala_grant(
                  RicartAgrawala_release(s, s.in_critical_section, t),
                  c, timestamp, t)
         ELSE LET h == s.in_critical_section
                  old == IF h \in DOMAIN s.deferred_replies
                         THEN s.deferred_replies[h] ELSE <<>>
              IN  [state |-> [s EXCEPT !.deferred_replies =
                                 DictSet(@, h, Append(old, c))],
                   success |-> FALSE, wait_reason |-> "in_use",
                   remaining |-> (s.cs_start_time + CsDuration) - t,
                   timers |-> {}]
    ELSE RicartAgrawala_grant(s, c, timestamp, t)

SameSession_client_only(s, c, timestamp) ==
    s.in_critical_section = c

\* The guard of _auto_release_critical_section (line 73).
SameSession(s, c, timestamp) ==
    /\ s.in_critical_section = c
    /\ s.cs_timestamp = timestamp

RicartAgrawala_auto_release_lost(s, c, timestamp, t) == s

\* _auto_release_critical_section(client_id, timestamp) at time t.
RicartAgrawala_auto_release(s, c, timestamp, t) ==
    IF SameSession(s, c, timestamp)
    THEN RicartAgrawala_release(s, c, t)
    ELSE s

\* release_critical_section(client_id) at time t.
RicartAgrawala_release_critical_section(s, c, t) ==
    IF s.in_critical_section = c
    THEN [state |-> RicartAgrawala_release(s, c, t), success |-> TRUE]
    ELSE [state |-> s, success |-> FALSE]

\* get_remaining_time(client_id) at time t.
RicartAgrawala_get_remaining_time(s, c, t) ==
    IF s.in_critical_section = c /\ s.cs_start_time # NoStamp
    THEN LET left == CsDuration - (t - s.cs_start_time)
         IN  [state |-> s, status |-> "active",
              remaining |-> IF left > 0 THEN left ELSE 0]
    ELSE IF c \in DOMAIN s.cooldowns
    THEN IF t < s.cooldowns[c]
         THEN [state |-> s, status |-> "cooldown",
               remaining |-> s.cooldowns[c] - t]
         ELSE [state |-> [s EXCEPT !.cooldowns = DictPop(@, c)],
               status |-> "available", remaining |-> 0]
    ELSE [state |-> s, status |-> "available", remaining |-> 0]

\* LogicalClock.increment(): the counter the timestamps are drawn from.
LogicalClock_increment(timestamp) == timestamp + 1

\* ------------------------------------------------------ LeaderboardToken
\* src/server/leaderboard_token.py; the class has no lock.  A returned
\* message is its text, with the number or the player formatted into it
\* kept beside it (0 and None when the text has none).
LeaderboardToken_init ==
    [has_token |-> TRUE,
     queue |-> <<>>,
     current_holder |-> None,
     last_used |-> EmptyDict]

\* Line 20.
RecentlyUsed(s, p, t) ==
    /\ p \in DOMAIN s.last_used
    /\ t - s.last_used[p] < CooldownPeriod

\* Line 25.
LeaderboardFree(s) == s.has_token /\ s.current_holder = None

\* request_token(player_id) at time t, run without interruption.
LeaderboardToken_request_token(s, p, t) ==
    IF RecentlyUsed(s, p, t)
    THEN [state |-> s, success |-> FALSE,
          message |-> "Cooldown",
          number |-> CooldownPeriod - (t - s.last_used[p]),
          player |-> None]
    ELSE IF LeaderboardFree(s)
    THEN [state |-> [s EXCEPT !.current_holder = p], success |-> TRUE,
          message |-> "Leaderboard token granted",
          number |-> 0, player |-> None]
    ELSE LET q == IF p \in Members(s.queue)
                  THEN s.queue ELSE Append(s.queue, p)
         IN  [state |-> [s EXCEPT !.queue = q], success |-> FALSE,
              message |-> "Added to leaderboard queue. Position",
              number |-> IndexFrom(q, p, 1) + 1, player |-> None]

LeaderboardToken_pass_skips_recent(s, t) ==
    LET ok == {i \in 1..Len(s.queue) : ~RecentlyUsed(s, s.queue[i], t)}
        first == IF ok = {} THEN Len(s.queue) + 1
                 ELSE CHOOSE i \in ok : \A j \in ok : i <= j
    IN  IF ok # {}
        THEN [state |-> [s EXCEPT !.current_holder = s.queue[first],
                                  !.queue = SubSeq(@, first + 1, Len(@))],
              success |-> TRUE,
              message |-> "Leaderboard token passed to",
              number |-> 0, player |-> s.queue[first]]
        ELSE [state |-> [s EXCEPT !.current_holder = None, !.queue = <<>>],
              success |-> TRUE,
              message |-> "Leaderboard token released",
              number |-> 0, player |-> None]

\* Lines 43-48: the token goes to the head of the queue, or becomes free.
LeaderboardToken_pass(s, t) ==
    IF s.queue # <<>>
    THEN [state |-> [s EXCEPT !.current_holder = Head(s.queue),
                              !.queue = Tail(@)],
          success |-> TRUE,
          message |-> "Leaderboard token passed to",
          number |-> 0, player |-> Head(s.queue)]
    ELSE [state |-> [s EXCEPT !.current_holder = None],
          success |-> TRUE,
          message |-> "Leaderboard token released",
          number |-> 0, player |-> None]

\* release_token(player_id) at time t, run without interruption.
LeaderboardToken_release_token(s, p, t) ==
    IF s.current_holder # p
    THEN [state |-> s, success |-> FALSE,
          message |-> "You don't hold the leaderboard token",
          number |-> 0, player |-> None]
    ELSE LeaderboardToken_pass(
             [s EXCEPT !.last_used = DictSet(@, p, t)], t)

\* ------------------------------------------------ RicartAgrawala (simple)
\* src/server/ricart_agrawala.py; the class has no lock.  The file begins
\* with the class statement: it imports nothing, so the name `time` that
\* request_critical_section and get_status look up is not bound and the
\* lookup raises NameError.
TimeModuleImported == FALSE

SimpleRicart_init ==
    [in_critical_section |-> FALSE,
     current_holder |-> None,
     start_time |-> 0]

\* release_critical_section(player_id).
SimpleRicart_release_critical_section(s, p) ==
    IF ~s.in_critical_section \/ s.current_holder # p
    THEN [state |-> s, success |-> FALSE,
          message |-> "Not in critical section"]
    ELSE [state |-> [s EXCEPT !.in_critical_section = FALSE,
                              !.current_holder = None],
          success |-> TRUE, message |-> "Released critical section"]

\* Lines 22-27.
SimpleRicart_grant(s, p, t) ==
    [state |-> [in_critical_section |-> TRUE,
                current_holder |-> p,
                start_time |-> t],
     raised |-> None, success |-> TRUE, holder |-> None,
     remaining |-> SimpleDuration]

\* request_critical_section(player_id, timestamp) at time t.  Line 10 is
\* current_time = time.time().
SimpleRicart_request_critical_section(s, p, t) ==
    IF ~TimeModuleImported
    THEN [state |-> s, raised |-> "NameError", success |-> FALSE,
          holder |-> None, remaining |-> 0]
    ELSE IF s.in_critical_section
    THEN LET remaining == (s.start_time + SimpleDuration) - t
         IN  IF remaining <= 0
             THEN SimpleRicart_grant(
                      SimpleRicart_release_critical_section(
                          s, s.current_holder).state, p, t)
             ELSE [state |-> s, raised |-> None, success |-> FALSE,
                   holder |-> s.current_holder, remaining |-> remaining]
    ELSE SimpleRicart_grant(s, p, t)

\* ---------------------------------------------------------- LogicalClock
\* src/server/clock_sync.py and src/client/clock_sync.py hold the same
\* class.  increment() is LogicalClock_increment above.
Max(a, b) == IF a >= b THEN a ELSE b

LogicalClock_sync_takes_received(timestamp, received_time) ==
    received_time + 1

\* sync(received_time): the new counter, which is also returned.
LogicalClock_sync(timestamp, received_time) ==
    Max(timestamp, received_time) + 1

LockAvailable_always(lock) == TRUE

\* `with self._lock` is entered when no thread holds the lock.
LockAvailable(lock) == lock = None

\* ------------------------------------------------- offset estimators
\* NetworkTimeProtocol (server) and NetworkTimeClient (client).  The
\* instants are integers; `/ 2` is true division, so an offset is a whole
\* number of halves and is kept as the record of its double.
HalfOf(n) == [twice |-> n]

NetworkTime_init ==
    [offset |-> HalfOf(0),
     reference_timestamp |-> 0]

NetworkTimeClient_init ==
    [offset |-> HalfOf(0),
     reference_timestamp |-> 0,
     last_sync_time |-> 0]

DelayReasonable_inclusive(delay) == delay >= 0 /\ delay <= DelayThreshold

\* Line 60: if delay > 0 and delay < 5.0.
DelayReasonable(delay) == delay > 0 /\ delay < DelayThreshold

\* Lines 54-64 of synchronize, which process_sync_response repeats: the
\* new state and the returned offset; t is time.time().
NetworkTime_estimate(s, t1, t2, t3, t4, t) ==
    LET delay == (t4 - t1) - (t3 - t2)
        offset == HalfOf((t2 - t1) + (t3 - t4))
        s1 == IF DelayReasonable(delay)
              THEN [s EXCEPT !.offset = offset,
                             !.reference_timestamp = t]
              ELSE s
    IN  [state |-> s1, offset |-> s1.offset]

\* synchronize(t1, t2, t3, t4) at time t.
NetworkTimeProtocol_synchronize(s, t1, t2, t3, t4, t) ==
    NetworkTime_estimate(s, t1, t2, t3, t4, t)

\* process_sync_response(t2, t3) at time t.
NetworkTimeClient_process_sync_response(s, t2, t3, t) ==
    NetworkTime_estimate(s, s.last_sync_time, t2, t3, t, t)

\* ---------------------------------------------------- DeadlockDetector
\* Mutant of DeadlockFound: a one-way wait is taken for a deadlock.
DeadlockFound_one_way(hs, ss) ==
    /\ ~(hs.holder = None \/ ss.holder = None)
    /\ hs.holder \in Members(ss.queue)

\* Lines 48-59 of check_for_deadlocks: the decision taken on the two
\* snapshots.
DeadlockFound(hs, ss) ==
    /\ ~(hs.holder = None \/ ss.holder = None)
    /\ hs.holder \in Members(ss.queue)
    /\ ss.holder \in Members(hs.queue)

\* --------------------------------------------------------------- state
VARIABLES
    tm,           \* tm[r]: the TokenManager of resource r
    raymond,      \* the RaymondServer
    now,          \* time.time()
    ret,          \* the last call and what it returned
    det_pc,       \* position of the thread inside check_for_deadlocks
    hint_status,  \* local hint_status of check_for_deadlocks
    skip_status,  \* local skip_status of check_for_deadlocks
    scen          \* what the calls of the end-to-end scenario returned

VARIABLES
    tw,           \* the TimeWarpManager
    tw_timers,    \* the threading.Timer objects started and not yet run
    tw_lock       \* "free", or "deadlocked": held by a blocked thread

warp_vars == <<tw, tw_timers, tw_lock>>

VARIABLES
    ra,           \* the timer-based RicartAgrawala
    ra_timers,    \* its threading.Timer objects started and not yet run
    ra_clock      \* the logical clock of the caller of the requests

ricart_vars == <<ra, ra_timers, ra_clock>>

VARIABLES
    simple,       \* the simple RicartAgrawala
    lb,           \* the LeaderboardToken
    lb_pc,        \* per client: the line its call of lb has reached
    lb_time,      \* per client: current_time of its request_token call
    lb_granted    \* per client: it was told "granted" and has not released

simple_vars == <<simple, lb>>
race_vars == <<lb_pc, lb_time, lb_granted>>

VARIABLES
    lc,           \* the timestamp of the LogicalClock
    lc_lock,      \* the thread that holds its _lock, or None
    lc_pc,        \* per thread: where its call of the clock stands
    lc_op,        \* per thread: the call it makes
    lc_reg,       \* per thread: the value it loaded from self.timestamp
    lc_ret,       \* per thread: the value its call returned
    ntp,          \* the NetworkTimeProtocol of the server
    ntp_client    \* the NetworkTimeClient of a client

clock_vars == <<lc, lc_lock, lc_pc, lc_op, lc_reg, lc_ret>>
ntp_vars == <<ntp, ntp_client>>

VARIABLES
    deadlock_thread,  \* DeadlockDetector.deadlock_thread, or NoThread
    stop_event,       \* DeadlockDetector.stop_event is set
    call_pc,          \* the line the caller of start() and stop() has reached
    loop_pc,          \* per thread: the line its _detection_loop has reached
    loop_hint         \* per thread: local hint_status of its check

loop_vars == <<deadlock_thread, stop_event, call_pc, loop_pc, loop_hint>>

VARIABLES
    cw_seen           \* history: the circular wait held at some instant
                      \* since the hint snapshot of the running check

snap_vars == <<cw_seen>>

\* self.deadlock_thread = None.
NoThread == 0
\* The threads start() can create, in the order of their creation.
LoopIds == 1..MaxStarts

Threads == {"T1", "T2", "T3"}
NoOp == [name |-> "none", received_time |-> 0]

vars == <<tm, raymond, now, ret, det_pc, hint_status, skip_status, scen,
          warp_vars, ricart_vars, simple_vars, race_vars, clock_vars,
          ntp_vars, loop_vars, snap_vars>>

NoCall == [op |-> "none"]

\* hint_status and skip_status while no check_for_deadlocks is running.
NoStatus == [holder |-> None, queue |-> <<>>]

\* The calls of the end-to-end scenario, in order; the last three are the
\* calls check_for_deadlocks makes.
Scenario ==
    << <<"request_token", "hint", "A">>,
       <<"request_token", "hint", "B">>,
       <<"release_token", "hint", "A">>,
       <<"request_token", "skip", "C">>,
       <<"request_token", "skip", "B">>,
       <<"request_token", "hint", "C">>,
       <<"get_status", "hint", None>>,
       <<"get_status", "skip", None>>,
       <<"force_release_token", "hint", None>> >>

\* scen once the calls made are no longer a prefix of Scenario.
OffScenario == [calls |-> -1, results |-> <<>>]

\* scen after the call `call` returned `result`.
ScenarioStep(call, result) ==
    IF scen.calls >= 0 /\ scen.calls < Len(Scenario)
       /\ Scenario[scen.calls + 1] = call
    THEN [calls |-> scen.calls + 1, results |-> Append(scen.results, result)]
    ELSE OffScenario

Init ==
    /\ tm = [r \in Resources |-> TokenManager_init]
    /\ raymond = RaymondServer_init
    /\ now = 0
    /\ ret = NoCall
    /\ det_pc = "idle"
    /\ hint_status = NoStatus
    /\ skip_status = NoStatus
    /\ scen = [calls |-> 0, results |-> <<>>]
    /\ tw = TimeWarpManager_init
    /\ tw_timers = {}
    /\ tw_lock = "free"
    /\ ra = RicartAgrawala_init
    /\ ra_timers = {}
    /\ ra_clock = 0
    /\ simple = SimpleRicart_init
    /\ lb = LeaderboardToken_init
    /\ lb_pc = [c \in Clients |-> "idle"]
    /\ lb_time = [c \in Clients |-> 0]
    /\ lb_granted = [c \in Clients |-> FALSE]
    /\ lc = 0
    /\ lc_lock = None
    /\ lc_pc = [t \in Threads |-> "idle"]
    /\ lc_op = [t \in Threads |-> NoOp]
    /\ lc_reg = [t \in Threads |-> 0]
    /\ lc_ret = [t \in Threads |-> NoStamp]
    /\ ntp = NetworkTime_init
    /\ ntp_client = NetworkTimeClient_init
    /\ deadlock_thread = NoThread
    /\ stop_event = FALSE
    /\ call_pc = "idle"
    /\ loop_pc = [i \in LoopIds |-> "unborn"]
    /\ loop_hint = [i \in LoopIds |-> NoStatus]
    /\ cw_seen = FALSE

\* time passes
Tick ==
    /\ now + TickStep <= MaxTime
    /\ now' = now + TickStep
    /\ UNCHANGED <<snap_vars, loop_vars, clock_vars, ntp_vars, simple_vars, race_vars, warp_vars, ricart_vars, tm, raymond, ret, det_pc, hint_status, skip_status, scen>>

\* ----------------------------------------------------------------------
\* Spec: the methods of one TokenManager (the hint manager), called in any
\* order by any client; ret is what the last call returned.  The methods
\* of the RaymondServer, used by SpecQueues, record ret in the same way.
\* ----------------------------------------------------------------------
RequestToken(c) ==
    LET res == TokenManager_request_token(tm["hint"], c, now)
    IN  /\ tm' = [tm EXCEPT !["hint"] = res.state]
        /\ ret' = [op |-> "request", client |-> c,
                   granted |-> res.granted, position |-> res.position,
                   wait_time |-> res.wait_time]
        /\ UNCHANGED <<snap_vars, loop_vars, clock_vars, ntp_vars, simple_vars, race_vars, warp_vars, ricart_vars, raymond, now, det_pc, hint_status, skip_status, scen>>

ReleaseToken(c) ==
    LET res == TokenManager_release_token(tm["hint"], c, now)
    IN  /\ tm' = [tm EXCEPT !["hint"] = res.state]
        /\ ret' = [op |-> "release", client |-> c,
                   success |-> res.success, next_holder |-> res.next_holder]
        /\ UNCHANGED <<snap_vars, loop_vars, clock_vars, ntp_vars, simple_vars, race_vars, warp_vars, ricart_vars, raymond, now, det_pc, hint_status, skip_status, scen>>

ForceReleaseToken ==
    LET res == TokenManager_force_release_token(tm["hint"])
    IN  /\ tm' = [tm EXCEPT !["hint"] = res.state]
        /\ ret' = [op |-> "force_release",
                   previous_holder |-> res.previous_holder,
                   next_holder |-> res.next_holder]
        /\ UNCHANGED <<snap_vars, loop_vars, clock_vars, ntp_vars, simple_vars, race_vars, warp_vars, ricart_vars, raymond, now, det_pc, hint_status, skip_status, scen>>

RaymondRequestToken(c) ==
    LET res == RaymondServer_request_token(raymond, c, now)
    IN  /\ raymond' = res.state
        /\ ret' = [op |-> "raymond_request", client |-> c,
                   granted |-> res.granted, position |-> res.position,
                   message |-> res.message]
        /\ UNCHANGED <<snap_vars, loop_vars, clock_vars, ntp_vars, simple_vars, race_vars, warp_vars, ricart_vars, tm, now, det_pc, hint_status, skip_status, scen>>

RaymondReleaseToken(c) ==
    LET res == RaymondServer_release_token(raymond, c, now)
    IN  /\ raymond' = res.state
        /\ ret' = [op |-> "raymond_release", client |-> c,
                   success |-> res.success, next_holder |-> res.next_holder]
        /\ UNCHANGED <<snap_vars, loop_vars, clock_vars, ntp_vars, simple_vars, race_vars, warp_vars, ricart_vars, tm, now, det_pc, hint_status, skip_status, scen>>

Next ==
    \/ Tick
    \/ \E c \in Clients : RequestToken(c)
    \/ \E c \in Clients : ReleaseToken(c)
    \/ ForceReleaseToken

Spec == Init /\ [][Next]_vars

\* ----------------------------------------------------------------------
\* SpecFair: Spec in which every holder eventually releases the token.
\* The requests, the forced releases and the clock are not constrained.
\* ----------------------------------------------------------------------
HolderReleases ==
    \E c \in Clients : tm["hint"].token_holder = c /\ ReleaseToken(c)

SpecFair == Init /\ [][Next]_vars /\ WF_vars(HolderReleases)

\* ----------------------------------------------------------------------
\* SpecQueues: Spec together with the methods of the RaymondServer.
\* ----------------------------------------------------------------------
NextQueues ==
    \/ Next
    \/ \E c \in Clients : RaymondRequestToken(c)
    \/ \E c \in Clients : RaymondReleaseToken(c)

SpecQueues == Init /\ [][NextQueues]_vars

\* ----------------------------------------------------------------------
\* SpecDetector: the hint and skip managers, called by the clients, and
\* one thread inside check_for_deadlocks.  ret is what the last
\* check_for_deadlocks returned.
\* ----------------------------------------------------------------------
ClientRequest(r, c) ==
    LET res == TokenManager_request_token(tm[r], c, now)
    IN  /\ tm' = [tm EXCEPT ![r] = res.state]
        /\ scen' = ScenarioStep(<<"request_token", r, c>>,
                     <<res.granted, res.position, res.wait_time>>)
        /\ UNCHANGED <<snap_vars, loop_vars, clock_vars, ntp_vars, simple_vars, race_vars, warp_vars, ricart_vars, raymond, now, ret, det_pc, hint_status, skip_status>>

ClientRelease(r, c) ==
    LET res == TokenManager_release_token(tm[r], c, now)
    IN  /\ tm' = [tm EXCEPT ![r] = res.state]
        /\ scen' = ScenarioStep(<<"release_token", r, c>>,
                     <<res.success, res.next_holder>>)
        /\ UNCHANGED <<snap_vars, loop_vars, clock_vars, ntp_vars, simple_vars, race_vars, warp_vars, ricart_vars, raymond, now, ret, det_pc, hint_status, skip_status>>

\* check_for_deadlocks, line 43: the hint snapshot.
CheckHintStatus ==
    /\ det_pc = "idle"
    /\ hint_status' = TokenManager_get_status(tm["hint"])
    /\ det_pc' = "hint_read"
    /\ scen' = ScenarioStep(<<"get_status", "hint", None>>,
                 TokenManager_get_status(tm["hint"]))
    /\ UNCHANGED <<snap_vars, loop_vars, clock_vars, ntp_vars, simple_vars, race_vars, warp_vars, ricart_vars, tm, raymond, now, ret, skip_status>>

\* check_for_deadlocks, lines 44-65: the skip snapshot and the decision.
\* Without a deadlock the call returns False here.
CheckSkipStatus ==
    /\ det_pc = "hint_read"
    /\ LET ss == TokenManager_get_status(tm["skip"])
       IN  /\ scen' = ScenarioStep(<<"get_status", "skip", None>>, ss)
           /\ IF DeadlockFound(hint_status, ss)
              THEN /\ skip_status' = ss
                   /\ det_pc' = "resolve"
                   /\ UNCHANGED <<hint_status, ret>>
              ELSE /\ skip_status' = NoStatus
                   /\ hint_status' = NoStatus
                   /\ det_pc' = "idle"
                   /\ ret' = [op |-> "check_for_deadlocks",
                              found |-> FALSE]
    /\ UNCHANGED <<snap_vars, loop_vars, clock_vars, ntp_vars, simple_vars, race_vars, warp_vars, ricart_vars, tm, raymond, now>>

\* _resolve_deadlock, line 72, and the return True of line 63.
ResolveDeadlock ==
    /\ det_pc = "resolve"
    /\ LET res == TokenManager_force_release_token(tm["hint"])
       IN  /\ tm' = [tm EXCEPT !["hint"] = res.state]
           /\ scen' = ScenarioStep(<<"force_release_token", "hint", None>>,
                        <<res.previous_holder, res.next_holder>>)
    /\ ret' = [op |-> "check_for_deadlocks", found |-> TRUE]
    /\ det_pc' = "idle"
    /\ hint_status' = NoStatus
    /\ skip_status' = NoStatus
    /\ UNCHANGED <<snap_vars, loop_vars, clock_vars, ntp_vars, simple_vars, race_vars, warp_vars, ricart_vars, raymond, now>>

NextDetector ==
    \/ Tick
    \/ \E r \in Resources, c \in Clients : ClientRequest(r, c)
    \/ \E r \in Resources, c \in Clients : ClientRelease(r, c)
    \/ CheckHintStatus
    \/ CheckSkipStatus
    \/ ResolveDeadlock

SpecDetector == Init /\ [][NextDetector]_vars

\* ----------------------------------------------------------------------
\* SpecTimeWarp: the methods of the TimeWarpManager, called in any order
\* by any client, and its timers, which run at or after their delay.  A
\* method starts when the lock is free; when the lock is held by a
\* blocked thread no method can start.
\* ----------------------------------------------------------------------
token_vars == <<tm, raymond, det_pc, hint_status, skip_status, scen>>

TickWarp ==
    /\ now + WarpTickStep <= MaxWarpTime
    /\ now' = now + WarpTickStep
    /\ UNCHANGED <<snap_vars, loop_vars, clock_vars, ntp_vars, simple_vars, race_vars, token_vars, ricart_vars, ret, warp_vars>>

ActivateTimeWarp(c) ==
    /\ tw_lock = "free"
    /\ LET res == TimeWarpManager_activate_time_warp(tw, c, now)
       IN  /\ tw' = res.state
           /\ tw_timers' = tw_timers \cup res.timers
           /\ ret' = [op |-> "activate_time_warp", client |-> c,
                      returned |-> TRUE,
                      success |-> res.success, remaining |-> res.remaining,
                      message |-> res.message]
    /\ UNCHANGED <<snap_vars, loop_vars, clock_vars, ntp_vars, simple_vars, race_vars, token_vars, ricart_vars, now, tw_lock>>

DeactivateTimeWarp(c) ==
    /\ tw_lock = "free"
    /\ LET res == TimeWarpManager_deactivate_time_warp(tw, c, now)
       IN  /\ tw' = res.state
           /\ ret' = [op |-> "deactivate_time_warp", client |-> c,
                      returned |-> TRUE, success |-> res.success]
    /\ UNCHANGED <<snap_vars, loop_vars, clock_vars, ntp_vars, simple_vars, race_vars, token_vars, ricart_vars, now, tw_timers, tw_lock>>

IsTimeWarpActive(c) ==
    /\ tw_lock = "free"
    /\ LET res == TimeWarpManager_is_time_warp_active(tw, c, now)
       IN  /\ tw_lock' = IF res.blocked THEN "deadlocked" ELSE "free"
           /\ ret' = [op |-> "is_time_warp_active", client |-> c,
                      returned |-> ~res.blocked,
                      active |-> res.active, remaining |-> res.remaining]
    /\ UNCHANGED <<snap_vars, loop_vars, clock_vars, ntp_vars, simple_vars, race_vars, token_vars, ricart_vars, now, tw, tw_timers>>

\* A timer runs _auto_deactivate_time_warp.
AutoDeactivateTimeWarp(timer) ==
    /\ tw_lock = "free"
    /\ timer \in tw_timers
    /\ now >= timer.expected_end_time
    /\ tw_timers' = tw_timers \ {timer}
    /\ LET blocks == TimeWarpManager_auto_deactivate_blocks(
                        tw, timer.client_id, timer.expected_end_time)
       IN  /\ tw_lock' = IF blocks THEN "deadlocked" ELSE "free"
           /\ ret' = [op |-> "_auto_deactivate_time_warp",
                      client |-> timer.client_id, returned |-> ~blocks]
    /\ UNCHANGED <<snap_vars, loop_vars, clock_vars, ntp_vars, simple_vars, race_vars, token_vars, ricart_vars, now, tw>>

NextTimeWarp ==
    \/ TickWarp
    \/ \E c \in Clients : ActivateTimeWarp(c)
    \/ \E c \in Clients : DeactivateTimeWarp(c)
    \/ \E c \in Clients : IsTimeWarpActive(c)
    \/ \E timer \in tw_timers : AutoDeactivateTimeWarp(timer)

SpecTimeWarp == Init /\ [][NextTimeWarp]_vars

\* ----------------------------------------------------------------------
\* SpecRicart: the methods of the timer-based RicartAgrawala, called in
\* any order by any client, and its timers, which run at or after their
\* delay.  Every request carries the next value of the caller's logical
\* clock as its timestamp.
\* ----------------------------------------------------------------------
DeferredLength(s) ==
    IF s.in_critical_section \in DOMAIN s.deferred_replies
    THEN Len(s.deferred_replies[s.in_critical_section])
    ELSE 0

\* The timestamp of the next request: the caller keeps a logical clock and
\* stamps every request with its next value, so the timestamps of the
\* grants increase.
NextTimestamp == LogicalClock_increment(ra_clock)

RicartRequest(c) ==
    /\ ra_clock < MaxTimestamp
    /\ LET timestamp == NextTimestamp
           res == RicartAgrawala_request_critical_section(
                      ra, c, timestamp, now)
       IN  /\ DeferredLength(res.state) <= MaxDeferred
           /\ ra_clock' = timestamp
           /\ ra' = res.state
           /\ ra_timers' = ra_timers \cup res.timers
           /\ ret' = [op |-> "request_critical_section", client |-> c,
                      success |-> res.success,
                      wait_reason |-> res.wait_reason,
                      remaining |-> res.remaining]
    /\ UNCHANGED <<snap_vars, loop_vars, clock_vars, ntp_vars, simple_vars, race_vars, token_vars, warp_vars, now>>

RicartRelease(c) ==
    /\ LET res == RicartAgrawala_release_critical_section(ra, c, now)
       IN  /\ ra' = res.state
           /\ ret' = [op |-> "release_critical_section", client |-> c,
                      success |-> res.success]
    /\ UNCHANGED <<snap_vars, loop_vars, clock_vars, ntp_vars, simple_vars, race_vars, token_vars, warp_vars, now, ra_timers, ra_clock>>

\* A timer runs _auto_release_critical_section.
RicartAutoRelease(timer) ==
    /\ timer \in ra_timers
    /\ now >= timer.due
    /\ ra_timers' = ra_timers \ {timer}
    /\ ra' = RicartAgrawala_auto_release(
                 ra, timer.client_id, timer.timestamp, now)
    /\ ret' = [op |-> "_auto_release_critical_section",
               client |-> timer.client_id]
    /\ UNCHANGED <<snap_vars, loop_vars, clock_vars, ntp_vars, simple_vars, race_vars, token_vars, warp_vars, now, ra_clock>>

RicartGetRemainingTime(c) ==
    /\ LET res == RicartAgrawala_get_remaining_time(ra, c, now)
       IN  /\ ra' = res.state
           /\ ret' = [op |-> "get_remaining_time", client |-> c,
                      status |-> res.status, remaining |-> res.remaining]
    /\ UNCHANGED <<snap_vars, loop_vars, clock_vars, ntp_vars, simple_vars, race_vars, token_vars, warp_vars, now, ra_timers, ra_clock>>

NextRicart ==
    \/ TickWarp
    \/ \E c \in Clients : RicartRequest(c)
    \/ \E c \in Clients : RicartRelease(c)
    \/ \E timer \in ra_timers : RicartAutoRelease(timer)
    \/ \E c \in Clients : RicartGetRemainingTime(c)

SpecRicart == Init /\ [][NextRicart]_vars

\* ----------------------------------------------------------------------
\* SpecRicartLive: SpecRicart with a clock that keeps running while a
\* timer is waiting for its instant, and with the scheduling the code
\* relies on: time passes, and a threading.Timer whose delay has passed
\* runs its callback (which only needs the lock, and every method
\* releases the lock).  Clients are under no obligation to call anything.
\* ----------------------------------------------------------------------
TimerWaiting == \E timer \in ra_timers : now < timer.due

TickRicart ==
    /\ now + WarpTickStep <= MaxWarpTime \/ TimerWaiting
    /\ now' = now + WarpTickStep
    /\ UNCHANGED <<snap_vars, loop_vars, clock_vars, ntp_vars, simple_vars, race_vars, token_vars, ricart_vars, ret, warp_vars>>

RunTimer == \E timer \in ra_timers : RicartAutoRelease(timer)

RicartRequestLive(c) ==
    /\ ra_clock < MaxLiveTimestamp
    /\ RicartRequest(c)

NextRicartLive ==
    \/ TickRicart
    \/ \E c \in Clients : RicartRequestLive(c)
    \/ \E c \in Clients : RicartRelease(c)
    \/ RunTimer
    \/ \E c \in Clients : RicartGetRemainingTime(c)

SpecRicartLive ==
    /\ Init
    /\ [][NextRicartLive]_vars
    /\ WF_vars(TickRicart)
    /\ WF_vars(RunTimer)

\* ----------------------------------------------------------------------
\* SpecSimple: the methods of the LeaderboardToken and of the simple
\* RicartAgrawala, each call run to its end before the next begins.
\* ----------------------------------------------------------------------
locked_vars == <<token_vars, warp_vars, ricart_vars>>

LeaderboardRequest(p) ==
    /\ LET res == LeaderboardToken_request_token(lb, p, now)
       IN  /\ lb' = res.state
           /\ ret' = [op |-> "lb_request_token", client |-> p,
                      success |-> res.success, message |-> res.message,
                      number |-> res.number, player |-> res.player]
    /\ UNCHANGED <<snap_vars, loop_vars, clock_vars, ntp_vars, locked_vars, simple, race_vars, now>>

LeaderboardRelease(p) ==
    /\ LET res == LeaderboardToken_release_token(lb, p, now)
       IN  /\ lb' = res.state
           /\ ret' = [op |-> "lb_release_token", client |-> p,
                      success |-> res.success, message |-> res.message,
                      number |-> res.number, player |-> res.player]
    /\ UNCHANGED <<snap_vars, loop_vars, clock_vars, ntp_vars, locked_vars, simple, race_vars, now>>

SimpleRequest(p) ==
    /\ LET res == SimpleRicart_request_critical_section(simple, p, now)
       IN  /\ simple' = res.state
           /\ ret' = [op |-> "simple_request_critical_section",
                      client |-> p, raised |-> res.raised,
                      success |-> res.success, holder |-> res.holder,
                      remaining |-> res.remaining]
    /\ UNCHANGED <<snap_vars, loop_vars, clock_vars, ntp_vars, locked_vars, lb, race_vars, now>>

SimpleRelease(p) ==
    /\ LET res == SimpleRicart_release_critical_section(simple, p)
       IN  /\ simple' = res.state
           /\ ret' = [op |-> "simple_release_critical_section",
                      client |-> p, success |-> res.success,
                      message |-> res.message]
    /\ UNCHANGED <<snap_vars, loop_vars, clock_vars, ntp_vars, locked_vars, lb, race_vars, now>>

NextSimple ==
    \/ Tick
    \/ \E p \in Clients : LeaderboardRequest(p)
    \/ \E p \in Clients : LeaderboardRelease(p)
    \/ \E p \in Clients : SimpleRequest(p)
    \/ \E p \in Clients : SimpleRelease(p)

SpecSimple == Init /\ [][NextSimple]_vars

\* ----------------------------------------------------------------------
\* SpecRace: two clients are threads that call request_token and
\* release_token of the one LeaderboardToken.  The class has no lock, so
\* the threads interleave between statements: lb_pc[c] is the line the
\* call of c executes next, "idle" between calls.  
\* ----------------------------------------------------------------------
\* The two clients whose threads run.
Racers == {"A", "B"}

Goto(c, line) == lb_pc' = [lb_pc EXCEPT ![c] = line]

\* The local current_time of a call that has returned is gone.
Forget(c, line) ==
    lb_time' = IF line = "idle" THEN [lb_time EXCEPT ![c] = 0] ELSE lb_time

race_frame == <<locked_vars, simple, ret, now>>

\* Line 17: current_time = time.time().
RaceRequestBegin(c) ==
    /\ lb_pc[c] = "idle"
    /\ lb_time' = [lb_time EXCEPT ![c] = now]
    /\ Goto(c, "request_20")
    /\ UNCHANGED <<snap_vars, loop_vars, clock_vars, ntp_vars, race_frame, lb, lb_granted>>

\* Lines 20-22: the cooldown test and its return.
RaceCooldownTest(c) ==
    /\ lb_pc[c] = "request_20"
    /\ LET line == IF RecentlyUsed(lb, c, lb_time[c])
                   THEN "idle" ELSE "request_25"
       IN  Goto(c, line) /\ Forget(c, line)
    /\ UNCHANGED <<snap_vars, loop_vars, clock_vars, ntp_vars, race_frame, lb, lb_granted>>

\* Line 25: if self.has_token and self.current_holder is None.
RaceFreeTest(c) ==
    /\ lb_pc[c] = "request_25"
    /\ Goto(c, IF LeaderboardFree(lb) THEN "request_26" ELSE "request_30")
    /\ UNCHANGED <<snap_vars, loop_vars, clock_vars, ntp_vars, race_frame, lb, lb_time, lb_granted>>

\* Line 26: self.current_holder = player_id.
RaceTake(c) ==
    /\ lb_pc[c] = "request_26"
    /\ lb' = [lb EXCEPT !.current_holder = c]
    /\ Goto(c, "request_27")
    /\ UNCHANGED <<snap_vars, loop_vars, clock_vars, ntp_vars, race_frame, lb_time, lb_granted>>

\* Line 27: return True, "Leaderboard token granted".
RaceReturnGranted(c) ==
    /\ lb_pc[c] = "request_27"
    /\ lb_granted' = [lb_granted EXCEPT ![c] = TRUE]
    /\ Goto(c, "idle") /\ Forget(c, "idle")
    /\ UNCHANGED <<snap_vars, loop_vars, clock_vars, ntp_vars, race_frame, lb>>

\* Line 30: if player_id not in self.queue.
RaceQueueTest(c) ==
    /\ lb_pc[c] = "request_30"
    /\ Goto(c, IF c \in Members(lb.queue)
                THEN "request_32" ELSE "request_31")
    /\ UNCHANGED <<snap_vars, loop_vars, clock_vars, ntp_vars, race_frame, lb, lb_time, lb_granted>>

\* Line 31: self.queue.append(player_id).
RaceAppend(c) ==
    /\ lb_pc[c] = "request_31"
    /\ lb' = [lb EXCEPT !.queue = Append(@, c)]
    /\ Goto(c, "request_32")
    /\ UNCHANGED <<snap_vars, loop_vars, clock_vars, ntp_vars, race_frame, lb_time, lb_granted>>

\* Line 32: return False with the position; queue.index raises ValueError
\* when a release has popped the player meanwhile.  Either way the call
\* ends without a grant.
RaceReturnQueued(c) ==
    /\ lb_pc[c] = "request_32"
    /\ Goto(c, "idle") /\ Forget(c, "idle")
    /\ UNCHANGED <<snap_vars, loop_vars, clock_vars, ntp_vars, race_frame, lb, lb_granted>>

\* Lines 36-37: the holder test of release_token and its return.
RaceReleaseBegin(c) ==
    /\ lb_pc[c] = "idle"
    /\ IF lb.current_holder # c
       THEN UNCHANGED <<lb_pc, lb_granted>>
       ELSE /\ Goto(c, "release_40")
            /\ lb_granted' = [lb_granted EXCEPT ![c] = FALSE]
    /\ UNCHANGED <<snap_vars, loop_vars, clock_vars, ntp_vars, race_frame, lb, lb_time>>

\* Line 40: self.last_used[player_id] = time.time().
RaceStamp(c) ==
    /\ lb_pc[c] = "release_40"
    /\ lb' = [lb EXCEPT !.last_used = DictSet(@, c, now)]
    /\ Goto(c, "release_43")
    /\ UNCHANGED <<snap_vars, loop_vars, clock_vars, ntp_vars, race_frame, lb_time, lb_granted>>

\* Line 43: if self.queue.
RaceQueueNonEmptyTest(c) ==
    /\ lb_pc[c] = "release_43"
    /\ Goto(c, IF lb.queue # <<>> THEN "release_44" ELSE "release_47")
    /\ UNCHANGED <<snap_vars, loop_vars, clock_vars, ntp_vars, race_frame, lb, lb_time, lb_granted>>

\* Lines 44-45: self.current_holder = self.queue.pop(0) and the return;
\* pop(0) raises IndexError when another release has emptied the queue.
RacePass(c) ==
    /\ lb_pc[c] = "release_44"
    /\ lb' = IF lb.queue # <<>>
             THEN [lb EXCEPT !.current_holder = Head(lb.queue),
                             !.queue = Tail(@)]
             ELSE lb
    /\ Goto(c, "idle")
    /\ UNCHANGED <<snap_vars, loop_vars, clock_vars, ntp_vars, race_frame, lb_time, lb_granted>>

\* Lines 47-48: self.current_holder = None and the return.
RaceFree(c) ==
    /\ lb_pc[c] = "release_47"
    /\ lb' = [lb EXCEPT !.current_holder = None]
    /\ Goto(c, "idle")
    /\ UNCHANGED <<snap_vars, loop_vars, clock_vars, ntp_vars, race_frame, lb_time, lb_granted>>

NextRace ==
    \/ Tick
    \/ \E c \in Racers :
          \/ RaceRequestBegin(c)
          \/ RaceCooldownTest(c)
          \/ RaceFreeTest(c)
          \/ RaceTake(c)
          \/ RaceReturnGranted(c)
          \/ RaceQueueTest(c)
          \/ RaceAppend(c)
          \/ RaceReturnQueued(c)
          \/ RaceReleaseBegin(c)
          \/ RaceStamp(c)
          \/ RaceQueueNonEmptyTest(c)
          \/ RacePass(c)
          \/ RaceFree(c)

SpecRace == Init /\ [][NextRace]_vars

\* ----------------------------------------------------------------------
\* SpecClock: the methods of one LogicalClock, each call run to its end
\* before the next begins.
\* ----------------------------------------------------------------------
manager_vars == <<locked_vars, simple_vars, race_vars>>
thread_vars == <<lc_lock, lc_pc, lc_op, lc_reg, lc_ret>>

ClockIncrement ==
    /\ lc < MaxCounter
    /\ lc' = LogicalClock_increment(lc)
    /\ ret' = [op |-> "increment", value |-> lc']
    /\ UNCHANGED <<snap_vars, loop_vars, manager_vars, thread_vars, ntp_vars, now>>

ClockSync(received_time) ==
    /\ lc < MaxCounter
    /\ lc' = LogicalClock_sync(lc, received_time)
    /\ ret' = [op |-> "sync", received_time |-> received_time,
               value |-> lc']
    /\ UNCHANGED <<snap_vars, loop_vars, manager_vars, thread_vars, ntp_vars, now>>

ClockGetTime ==
    /\ ret' = [op |-> "get_time", value |-> lc]
    /\ UNCHANGED <<snap_vars, loop_vars, manager_vars, clock_vars, ntp_vars, now>>

NextClock ==
    \/ ClockIncrement
    \/ \E received_time \in 0..MaxCounter : ClockSync(received_time)
    \/ ClockGetTime

SpecClock == Init /\ [][NextClock]_vars

\* ----------------------------------------------------------------------
\* SpecThreads: every thread makes one call of the one LogicalClock,
\* increment() or sync(received_time), and the calls overlap.  A call is
\* four steps: entering `with self._lock`, loading self.timestamp, storing
\* the new value, and `return self.timestamp` together with leaving the
\* lock.
\* ----------------------------------------------------------------------
thread_frame == <<manager_vars, ntp_vars, ret, now>>

ThreadAcquire(t, op) ==
    /\ lc_pc[t] = "idle"
    /\ LockAvailable(lc_lock)
    /\ lc_lock' = t
    /\ lc_op' = [lc_op EXCEPT ![t] = op]
    /\ lc_pc' = [lc_pc EXCEPT ![t] = "load"]
    /\ UNCHANGED <<snap_vars, loop_vars, thread_frame, lc, lc_reg, lc_ret>>

ThreadLoad(t) ==
    /\ lc_pc[t] = "load"
    /\ lc_reg' = [lc_reg EXCEPT ![t] = lc]
    /\ lc_pc' = [lc_pc EXCEPT ![t] = "store"]
    /\ UNCHANGED <<snap_vars, loop_vars, thread_frame, lc, lc_lock, lc_op, lc_ret>>

ThreadStore(t) ==
    /\ lc_pc[t] = "store"
    /\ lc' = IF lc_op[t].name = "increment"
             THEN LogicalClock_increment(lc_reg[t])
             ELSE LogicalClock_sync(lc_reg[t], lc_op[t].received_time)
    /\ lc_pc' = [lc_pc EXCEPT ![t] = "return"]
    /\ UNCHANGED <<snap_vars, loop_vars, thread_frame, lc_lock, lc_op, lc_reg, lc_ret>>

ThreadReturn(t) ==
    /\ lc_pc[t] = "return"
    /\ lc_ret' = [lc_ret EXCEPT ![t] = lc]
    /\ lc_reg' = [lc_reg EXCEPT ![t] = 0]
    /\ lc_lock' = IF lc_lock = t THEN None ELSE lc_lock
    /\ lc_pc' = [lc_pc EXCEPT ![t] = "done"]
    /\ UNCHANGED <<snap_vars, loop_vars, thread_frame, lc, lc_op>>

ClockCalls ==
    {[name |-> "increment", received_time |-> 0]}
    \cup {[name |-> "sync", received_time |-> r] : r \in 0..MaxReceived}

NextThreads ==
    \E t \in Threads :
        \/ \E op \in ClockCalls : ThreadAcquire(t, op)
        \/ ThreadLoad(t)
        \/ ThreadStore(t)
        \/ ThreadReturn(t)

SpecThreads == Init /\ [][NextThreads]_vars

\* ----------------------------------------------------------------------
\* SpecNtp: synchronize of the server's NetworkTimeProtocol, called with
\* the instants of any exchange while time passes, and request_sync and
\* process_sync_response of the client's NetworkTimeClient, answered with
\* any two server instants.
\* ----------------------------------------------------------------------
Stamps == 0..MaxStamp

\* The instants the server's clock shows when it receives and replies.
ServerStamps == 0..MaxServerStamp

\* The instants of one exchange: the request leaves at t1 and its answer
\* arrives at t4 on one clock, the server receives at t2 and replies at t3
\* on the other.
Exchanges ==
    {x \in [t1 : Stamps, t2 : ServerStamps, t3 : ServerStamps, t4 : Stamps] :
        x.t1 <= x.t4 /\ x.t2 <= x.t3}

\* The server instants of one answer.
Answers == {x \in [t2 : ServerStamps, t3 : ServerStamps] : x.t2 <= x.t3}

TickNtp ==
    /\ now < MaxNtpTime
    /\ now' = now + 1
    /\ UNCHANGED <<snap_vars, loop_vars, manager_vars, clock_vars, ntp_vars, ret>>

NtpSynchronize(t1, t2, t3, t4) ==
    /\ LET res == NetworkTimeProtocol_synchronize(ntp, t1, t2, t3, t4, now)
       IN  /\ ntp' = res.state
           /\ ret' = [op |-> "synchronize", offset |-> res.offset]
    /\ UNCHANGED <<snap_vars, loop_vars, manager_vars, clock_vars, ntp_client, now>>

NtpRequestSync ==
    /\ ntp_client' = [ntp_client EXCEPT !.last_sync_time = now]
    /\ ret' = [op |-> "request_sync", offset |-> ntp_client.offset]
    /\ UNCHANGED <<snap_vars, loop_vars, manager_vars, clock_vars, ntp, now>>

NtpProcessSyncResponse(t2, t3) ==
    /\ LET res == NetworkTimeClient_process_sync_response(
                      ntp_client, t2, t3, now)
       IN  /\ ntp_client' = res.state
           /\ ret' = [op |-> "process_sync_response",
                      offset |-> res.offset]
    /\ UNCHANGED <<snap_vars, loop_vars, manager_vars, clock_vars, ntp, now>>

\* The two estimators live in different processes and share nothing: a
\* behaviour exercises one of them.
ServerOnly == ntp_client = NetworkTimeClient_init
ClientOnly == ntp = NetworkTime_init

NextNtp ==
    \/ TickNtp
    \/ /\ ServerOnly
       /\ \E x \in Exchanges : NtpSynchronize(x.t1, x.t2, x.t3, x.t4)
    \/ /\ ClientOnly
       /\ NtpRequestSync
    \/ /\ ClientOnly
       /\ \E x \in Answers : NtpProcessSyncResponse(x.t2, x.t3)

SpecNtp == Init /\ [][NextNtp]_vars

\* ----------------------------------------------------------------------
\* SpecLoop: the DeadlockDetector with its background thread.  One caller
\* calls start() and stop(); every thread start() created runs
\* _detection_loop, statement by statement, against the hint and skip
\* managers the clients call.  The scheduler runs every thread that can
\* take a step: weak fairness of the loop threads, none of the callers.
\* ----------------------------------------------------------------------
LoopClients == {"A", "B"}

\* The frame of the steps of the caller and of the loop threads.
loop_frame == <<snap_vars, clock_vars, ntp_vars, simple_vars, race_vars,
                warp_vars,
                ricart_vars, raymond, now, det_pc, hint_status,
                skip_status, scen>>

\* The threads start() has created so far.
Born == {i \in LoopIds : loop_pc[i] # "unborn"}

\* Line 26: `if self.deadlock_thread`.
ThreadStarted_always(thread) == TRUE

ThreadStarted(thread) == thread # NoThread

\* Line 33: `while not self.stop_event.is_set()`.
LoopContinues_always(event) == TRUE

LoopContinues(event) == ~event

\* Line 28: join(timeout=2) returns once the thread has ended, or after
\* two seconds whatever the thread does.
JoinReturns(thread, timed_out) ==
    \/ timed_out
    \/ thread \in LoopIds /\ loop_pc[thread] = "exited"

\* start(), line 19: self.stop_event.clear().
DetectorStartClear ==
    /\ call_pc = "idle"
    /\ Cardinality(Born) < MaxStarts
    /\ stop_event' = FALSE
    /\ call_pc' = "start_20"
    /\ UNCHANGED <<loop_frame, tm, ret, deadlock_thread, loop_pc, loop_hint>>

\* start(), lines 20-22: the new thread is stored and started.
DetectorStartThread ==
    /\ call_pc = "start_20"
    /\ LET thread == Cardinality(Born) + 1
       IN  /\ deadlock_thread' = thread
           /\ loop_pc' = [loop_pc EXCEPT ![thread] = "test"]
    /\ call_pc' = "idle"
    /\ ret' = [op |-> "start"]
    /\ UNCHANGED <<loop_frame, tm, stop_event, loop_hint>>

\* stop(), lines 26-27: without a thread the call returns; with one it
\* sets the event and goes on to join.
DetectorStopBegin ==
    /\ call_pc = "idle"
    /\ IF ThreadStarted(deadlock_thread)
       THEN /\ stop_event' = TRUE
            /\ call_pc' = "stop_28"
            /\ UNCHANGED ret
       ELSE /\ ret' = [op |-> "stop"]
            /\ UNCHANGED <<stop_event, call_pc>>
    /\ UNCHANGED <<loop_frame, tm, deadlock_thread, loop_pc, loop_hint>>

\* stop(), lines 28-29: the bounded join, then the thread is forgotten.
DetectorStopJoin ==
    /\ call_pc = "stop_28"
    /\ \E timed_out \in BOOLEAN : JoinReturns(deadlock_thread, timed_out)
    /\ deadlock_thread' = NoThread
    /\ call_pc' = "idle"
    /\ ret' = [op |-> "stop"]
    /\ UNCHANGED <<loop_frame, tm, stop_event, loop_pc, loop_hint>>

\* _detection_loop, line 33: the loop test.
LoopTest(i) ==
    /\ loop_pc[i] = "test"
    /\ loop_pc' = [loop_pc EXCEPT
                     ![i] = IF LoopContinues(stop_event)
                            THEN "check_43" ELSE "exited"]
    /\ UNCHANGED <<loop_frame, tm, ret, deadlock_thread, stop_event,
                   call_pc, loop_hint>>

\* check_for_deadlocks called at line 34; line 43: the hint snapshot.
LoopCheckHint(i) ==
    /\ loop_pc[i] = "check_43"
    /\ loop_hint' = [loop_hint EXCEPT
                       ![i] = TokenManager_get_status(tm["hint"])]
    /\ loop_pc' = [loop_pc EXCEPT ![i] = "check_44"]
    /\ UNCHANGED <<loop_frame, tm, ret, deadlock_thread, stop_event,
                   call_pc>>

\* check_for_deadlocks, lines 44-65: the skip snapshot and the decision.
LoopCheckSkip(i) ==
    /\ loop_pc[i] = "check_44"
    /\ loop_pc' = [loop_pc EXCEPT
                     ![i] = IF DeadlockFound(loop_hint[i],
                                   TokenManager_get_status(tm["skip"]))
                            THEN "resolve_72" ELSE "wait_36"]
    /\ loop_hint' = [loop_hint EXCEPT ![i] = NoStatus]
    /\ UNCHANGED <<loop_frame, tm, ret, deadlock_thread, stop_event,
                   call_pc>>

\* _resolve_deadlock, line 72: the forced release of the hint token.
LoopResolve(i) ==
    /\ loop_pc[i] = "resolve_72"
    /\ tm' = [tm EXCEPT
                !["hint"] = TokenManager_force_release_token(tm["hint"]).state]
    /\ loop_pc' = [loop_pc EXCEPT ![i] = "wait_36"]
    /\ UNCHANGED <<loop_frame, ret, deadlock_thread, stop_event, call_pc,
                   loop_hint>>

\* _detection_loop, line 36: stop_event.wait(check_interval) returns when
\* the event is set or the interval is over.
LoopWait(i) ==
    /\ loop_pc[i] = "wait_36"
    /\ loop_pc' = [loop_pc EXCEPT ![i] = "test"]
    /\ UNCHANGED <<loop_frame, tm, ret, deadlock_thread, stop_event,
                   call_pc, loop_hint>>

\* One step of the loop thread i.
LoopStep(i) ==
    \/ LoopTest(i)
    \/ LoopCheckHint(i)
    \/ LoopCheckSkip(i)
    \/ LoopResolve(i)
    \/ LoopWait(i)

NextLoop ==
    \/ \E r \in Resources, c \in LoopClients : ClientRequest(r, c)
    \/ DetectorStartClear
    \/ DetectorStartThread
    \/ DetectorStopBegin
    \/ DetectorStopJoin
    \/ \E i \in LoopIds : LoopStep(i)

SpecLoop ==
    /\ Init
    /\ [][NextLoop]_vars
    /\ \A i \in LoopIds : WF_vars(LoopStep(i))

\* ----------------------------------------------------------------------
\* SpecTicks: the hint and skip managers, called by the clients, and the
\* detection loop of a started detector: check_for_deadlocks is run
\* again and again, one call after the other, each in its three steps.
\* The loop thread is scheduled: weak fairness of its steps.
\* ----------------------------------------------------------------------
DetectorTick ==
    \/ CheckHintStatus
    \/ CheckSkipStatus
    \/ ResolveDeadlock

NewRequest == \E r \in Resources, c \in Clients : ClientRequest(r, c)

NextTicks ==
    \/ NewRequest
    \/ \E r \in Resources, c \in Clients : ClientRelease(r, c)
    \/ DetectorTick

SpecTicks == Init /\ [][NextTicks]_vars /\ WF_vars(DetectorTick)

\* ----------------------------------------------------------------------
\* SpecSnapshots: the hint and skip managers, called by the clients, and
\* one thread inside check_for_deadlocks, as in SpecDetector, with the
\* history variable cw_seen: between the two snapshots of a check it
\* records whether the circular wait held in one of the states passed
\* through, the state of the hint snapshot and that of the skip snapshot
\* included.
\* ----------------------------------------------------------------------
snap_frame == <<loop_vars, clock_vars, ntp_vars, simple_vars, race_vars,
                warp_vars, ricart_vars, raymond, now, scen>>

\* The circular wait holds in the managers m: what check_for_deadlocks
\* decides on two snapshots taken at the same instant.
CircularWaitIn(m) ==
    DeadlockFound(TokenManager_get_status(m["hint"]),
                  TokenManager_get_status(m["skip"]))

\* cw_seen after a call that leaves the managers as m.
Seen(m) ==
    IF det_pc = "hint_read" THEN cw_seen \/ CircularWaitIn(m) ELSE cw_seen

SnapRequest(r, c) ==
    LET res == TokenManager_request_token(tm[r], c, now)
    IN  /\ tm' = [tm EXCEPT ![r] = res.state]
        /\ cw_seen' = Seen(tm')
        /\ UNCHANGED <<snap_frame, ret, det_pc, hint_status, skip_status>>

SnapRelease(r, c) ==
    LET res == TokenManager_release_token(tm[r], c, now)
    IN  /\ tm' = [tm EXCEPT ![r] = res.state]
        /\ cw_seen' = Seen(tm')
        /\ UNCHANGED <<snap_frame, ret, det_pc, hint_status, skip_status>>

\* check_for_deadlocks, line 43: the hint snapshot.
SnapHintStatus ==
    /\ det_pc = "idle"
    /\ hint_status' = TokenManager_get_status(tm["hint"])
    /\ det_pc' = "hint_read"
    /\ cw_seen' = CircularWaitIn(tm)
    /\ UNCHANGED <<snap_frame, tm, ret, skip_status>>

\* check_for_deadlocks, lines 44-65: the skip snapshot and the decision.
SnapSkipStatus ==
    /\ det_pc = "hint_read"
    /\ LET ss == TokenManager_get_status(tm["skip"])
       IN  IF DeadlockFound(hint_status, ss)
           THEN /\ skip_status' = ss
                /\ det_pc' = "resolve"
                /\ UNCHANGED <<hint_status, ret, cw_seen>>
           ELSE /\ skip_status' = NoStatus
                /\ hint_status' = NoStatus
                /\ det_pc' = "idle"
                /\ cw_seen' = FALSE
                /\ ret' = [op |-> "check_for_deadlocks", found |-> FALSE]
    /\ UNCHANGED <<snap_frame, tm>>

\* _resolve_deadlock, line 72, and the return True of line 63.
SnapResolve ==
    /\ det_pc = "resolve"
    /\ tm' = [tm EXCEPT
                !["hint"] = TokenManager_force_release_token(tm["hint"]).state]
    /\ ret' = [op |-> "check_for_deadlocks", found |-> TRUE]
    /\ det_pc' = "idle"
    /\ hint_status' = NoStatus
    /\ skip_status' = NoStatus
    /\ cw_seen' = FALSE
    /\ UNCHANGED snap_frame

NextSnapshots ==
    \/ \E r \in Resources, c \in Clients : SnapRequest(r, c)
    \/ \E r \in Resources, c \in Clients : SnapRelease(r, c)
    \/ SnapHintStatus
    \/ SnapSkipStatus
    \/ SnapResolve

SpecSnapshots == Init /\ [][NextSnapshots]_vars

\* ----------------------------------------------------------------------
\* SpecManagers: the TokenManager, the RaymondServer and the
\* LeaderboardToken, each called in any order, one call after the other.
\* The three are separate objects that share no field, so a behaviour
\* calls either the first two or the third.
\* ----------------------------------------------------------------------
QueuesUntouched ==
    /\ tm = [r \in Resources |-> TokenManager_init]
    /\ raymond = RaymondServer_init

LeaderboardUntouched == lb = LeaderboardToken_init

NextManagers ==
    \/ Tick
    \/ /\ LeaderboardUntouched
       /\ \E c \in Clients : RequestToken(c)
    \/ /\ LeaderboardUntouched
       /\ \E c \in Clients : ReleaseToken(c)
    \/ /\ LeaderboardUntouched
       /\ ForceReleaseToken
    \/ /\ LeaderboardUntouched
       /\ \E c \in Clients : RaymondRequestToken(c)
    \/ /\ LeaderboardUntouched
       /\ \E c \in Clients : RaymondReleaseToken(c)
    \/ /\ QueuesUntouched
       /\ \E p \in Clients : LeaderboardRequest(p)
    \/ /\ QueuesUntouched
       /\ \E p \in Clients : LeaderboardRelease(p)

SpecManagers == Init /\ [][NextManagers]_vars

\* ======================================================================
\* Properties
\* ======================================================================
Hint == tm["hint"]
Skip == tm["skip"]

\* No element occurs twice in q.
NoRepeat(q) == \A i, j \in 1..Len(q) : i # j => q[i] # q[j]

\* ----------------------------------------------------------------------
\* C1  Mutual exclusion of a TokenManager.  The manager has one holder
\* slot; a request is answered granted=true only to the client that is
\* the holder when the call returns, and only when the token was free or
\* already that client's, so a grant never takes the token from a holder.
\* ----------------------------------------------------------------------
GrantedIsHolder ==
    (ret'.op = "request" /\ ret'.granted) =>
        /\ Hint'.token_holder = ret'.client
        /\ Hint.token_holder \in {None, ret'.client}

MutualExclusion ==
    [][ /\ Cardinality({c \in Clients : Hint'.token_holder = c}) <= 1
        /\ Hint'.token_holder \in Clients \cup {None}
        /\ GrantedIsHolder ]_vars

\* A client is granted the token after another client held and released it.
MutualExclusionWitness ==
    /\ ret.op = "request" /\ ret.granted
    /\ Hint.token_holder = ret.client
    /\ \E d \in DOMAIN Hint.cooldowns : d # ret.client

\* ----------------------------------------------------------------------
\* C2  No client occurs more than once in the wait queue of the
\* TokenManager or of the RaymondServer.
\* ----------------------------------------------------------------------
NoDuplicateInQueue ==
    /\ NoRepeat(Hint.request_queue)
    /\ NoRepeat(raymond.queue)

\* The client at the front of a RaymondServer queue of two repeats its
\* request while the TokenManager queue holds two clients as well.
NoDuplicateInQueueWitness ==
    /\ ret.op = "raymond_request" /\ ~ret.granted /\ ret.position = 0
    /\ ret.message[1] = "Already in queue at position"
    /\ Len(raymond.queue) = 2
    /\ Len(Hint.request_queue) = 2

\* ----------------------------------------------------------------------
\* C3  The holder of a TokenManager is never in its wait queue.
\* ----------------------------------------------------------------------
HolderNotQueued ==
    Hint.token_holder \notin Members(Hint.request_queue)

\* A release has promoted the head of the queue and a client still waits.
HolderNotQueuedWitness ==
    /\ ret.op = "release" /\ ret.success
    /\ ret.next_holder # None
    /\ Hint.token_holder = ret.next_holder
    /\ Hint.request_queue # <<>>

\* ----------------------------------------------------------------------
\* C4  release(holder) hands the token to the first queued client, in FIFO
\* order, that is not within an unexpired cooldown; the clients ahead of it
\* leave the queue and the pending set; without such a client the token is
\* free and the queue empty.
\* ----------------------------------------------------------------------
\* Client c has an unexpired cooldown in state s at time t.
Cooling(s, c, t) == c \in DOMAIN s.cooldowns /\ t < s.cooldowns[c]

\* Indexes of the queued clients that can take the token.
EligibleIndexes(s, t) ==
    {i \in 1..Len(s.request_queue) : ~Cooling(s, s.request_queue[i], t)}

\* The smallest element of a non-empty set of integers.
Least(S) == CHOOSE i \in S : \A j \in S : i <= j

ReleasePromotesFirstEligible ==
    [][ \A c \in Clients :
          (ReleaseToken(c) /\ Hint.token_holder = c) =>
             LET q == Hint.request_queue
                 E == EligibleIndexes(Hint, now)
             IN  IF E = {}
                 THEN /\ Hint'.token_holder = None
                      /\ Hint'.request_queue = <<>>
                      /\ Hint'.pending_requests =
                            Hint.pending_requests \ ({c} \cup Members(q))
                      /\ ret'.next_holder = None
                 ELSE LET k == Least(E)
                      IN  /\ Hint'.token_holder = q[k]
                          /\ ret'.next_holder = q[k]
                          /\ Hint'.request_queue = SubSeq(q, k + 1, Len(q))
                          /\ Hint'.pending_requests =
                                Hint.pending_requests \
                                   ({c} \cup {q[j] : j \in 1..(k - 1)})
      ]_vars

\* A release has promoted the first of two or more queued clients.
ReleasePromotesWitness ==
    /\ ret.op = "release" /\ ret.success
    /\ ret.next_holder # None
    /\ Len(Hint.request_queue) >= 1
    /\ ret.client \in DOMAIN Hint.cooldowns

\* ----------------------------------------------------------------------
\* C5  force_release_token leaves the cooldown table as it is, so the
\* previous holder is not refused on its next request; a successful
\* release records now + cooldown_duration for the releasing client.
\* ----------------------------------------------------------------------
ForceReleaseAppliesNoCooldown ==
    [][ /\ ForceReleaseToken =>
              /\ Hint'.cooldowns = Hint.cooldowns
              /\ Hint.token_holder # None =>
                    /\ ~Cooling(Hint', Hint.token_holder, now)
                    /\ TokenManager_request_token(
                          Hint', Hint.token_holder, now).position # -1
        /\ \A c \in Clients :
              (ReleaseToken(c) /\ Hint.token_holder = c) =>
                    /\ c \in DOMAIN Hint'.cooldowns
                    /\ Hint'.cooldowns[c] = now + CooldownDuration
      ]_vars

\* The token was forced away from a holder while another client, which
\* had released it normally, is in cooldown.
ForceReleaseWitness ==
    /\ ret.op = "force_release"
    /\ ret.previous_holder # None
    /\ ret.previous_holder \notin DOMAIN Hint.cooldowns
    /\ \E d \in DOMAIN Hint.cooldowns : now < Hint.cooldowns[d]

\* ----------------------------------------------------------------------
\* C6  check_for_deadlocks, run with no manager call in between, returns
\* True exactly when both tokens are held, the hint holder is in the skip
\* queue and the skip holder is in the hint queue; when it returns False
\* it has changed neither manager.
\* ----------------------------------------------------------------------
CircularWait ==
    /\ Hint.token_holder # None
    /\ Skip.token_holder # None
    /\ Hint.token_holder \in Members(Skip.request_queue)
    /\ Skip.token_holder \in Members(Hint.request_queue)

\* The hint manager is as the detector saw it.
HintAsObserved ==
    /\ det_pc # "idle"
    /\ hint_status.holder = Hint.token_holder
    /\ hint_status.queue = Hint.request_queue

DeadlockDeclaredIffCircularWait ==
    [][ /\ (CheckSkipStatus /\ HintAsObserved) =>
              /\ (det_pc' = "resolve") <=> CircularWait
              /\ (det_pc' = "idle") <=> ~CircularWait
        /\ (CheckSkipStatus /\ det_pc' = "idle") =>
              /\ ret'.op = "check_for_deadlocks" /\ ~ret'.found
              /\ tm' = tm
        /\ ResolveDeadlock =>
              ret'.op = "check_for_deadlocks" /\ ret'.found
      ]_vars

\* The detector has read both managers during a circular wait and is
\* about to resolve it.
DeadlockDeclaredWitness ==
    /\ det_pc = "resolve"
    /\ HintAsObserved
    /\ CircularWait

ScenarioResults ==
    << <<TRUE, 0, 0>>,
       <<FALSE, 0, 0>>,
       <<TRUE, "B">>,
       <<TRUE, 0, 0>>,
       <<FALSE, 0, 0>>,
       <<FALSE, 0, 0>>,
       [holder |-> "B", queue |-> <<"C">>],
       [holder |-> "C", queue |-> <<"B">>],
       <<"B", "C">> >>

ScenarioOutcome ==
    /\ scen.calls >= 0 =>
          scen.results = SubSeq(ScenarioResults, 1, scen.calls)
    /\ scen.calls \in 3..Len(Scenario) =>
          "A" \in DOMAIN Hint.cooldowns
    /\ scen.calls \in 3..(Len(Scenario) - 1) =>
          Hint.token_holder = "B"
    /\ scen.calls = Len(Scenario) - 1 => det_pc = "resolve"
    /\ scen.calls = Len(Scenario) =>
          /\ ret.op = "check_for_deadlocks" /\ ret.found
          /\ Hint.token_holder = "C"
          /\ Hint.request_queue = <<>>
          /\ "B" \notin DOMAIN Hint.cooldowns
          /\ Skip = [token_holder |-> "C",
                     request_queue |-> <<"B">>,
                     cooldowns |-> EmptyDict,
                     pending_requests |-> {"B", "C"}]

\* All nine calls of the scenario have been made.
ScenarioWitness ==
    /\ scen.calls = Len(Scenario)
    /\ Hint.token_holder = "C"

\* ----------------------------------------------------------------------
\* C9  When the hint token has changed hands, or has become free, between
\* the detector's snapshot and its force_release_token call, the call
\* leaves the holder and the queue of the hint manager as they are.
\* ----------------------------------------------------------------------
ForceReleaseSparesNewHolder ==
    [][ (ResolveDeadlock /\ Hint.token_holder # hint_status.holder) =>
          /\ Hint'.token_holder = Hint.token_holder
          /\ Hint'.request_queue = Hint.request_queue
      ]_vars

\* ----------------------------------------------------------------------
\* C10  A request made while the client's cooldown has not expired returns
\* (False, -1, remaining) and changes nothing.
\* ----------------------------------------------------------------------
RequestInCooldownRefused ==
    [][ \A c \in Clients :
          ( /\ RequestToken(c)
            /\ c \in DOMAIN Hint.cooldowns
            /\ now < Hint.cooldowns[c] ) =>
               /\ ret'.op = "request" /\ ret'.client = c
               /\ ret'.granted = FALSE
               /\ ret'.position = -1
               /\ ret'.wait_time = Hint.cooldowns[c] - now
               /\ ret'.wait_time > 0
               /\ tm' = tm
      ]_vars

\* A request was refused some time after the release, with part of the
\* cooldown left.
RequestInCooldownWitness ==
    /\ ret.op = "request" /\ ~ret.granted
    /\ ret.position = -1
    /\ ret.wait_time > 0 /\ ret.wait_time < CooldownDuration
    /\ ret.client \in DOMAIN Hint.cooldowns

\* ----------------------------------------------------------------------
\* C11  A request of the current holder returns granted with position 0, a
\* request of a queued client returns not granted with its 0-based index
\* in the queue; neither changes the manager, in the TokenManager and in
\* the RaymondServer, and the same request made again returns the same.
\* ----------------------------------------------------------------------
\* The 0-based index of c in a queue q that holds c.
ZeroBasedIndex(q, c) == CHOOSE i \in 0..(Len(q) - 1) : q[i + 1] = c

IdempotentRerequest ==
    [][ \A c \in Clients :
          /\ (RequestToken(c) /\ Hint.token_holder = c) =>
                /\ ret'.granted /\ ret'.position = 0
                /\ tm' = tm
                /\ TokenManager_request_token(Hint', c, now).granted
          /\ (RequestToken(c) /\ c \in Members(Hint.request_queue)) =>
                /\ ~ret'.granted
                /\ ret'.position = ZeroBasedIndex(Hint.request_queue, c)
                /\ tm' = tm
                /\ TokenManager_request_token(Hint', c, now).position
                      = ret'.position
          /\ (RaymondRequestToken(c) /\ raymond.current_holder = c) =>
                /\ ret'.granted /\ ret'.position = 0
                /\ raymond' = raymond
          /\ (RaymondRequestToken(c) /\ c \in Members(raymond.queue)) =>
                /\ ~ret'.granted
                /\ ret'.position = ZeroBasedIndex(raymond.queue, c)
                /\ raymond' = raymond
      ]_vars

\* The second of two queued clients has repeated its request to the
\* TokenManager while the RaymondServer token is held.
IdempotentRerequestWitness ==
    /\ ret.op = "request" /\ ~ret.granted
    /\ ret.position = 1
    /\ Len(Hint.request_queue) = 2
    /\ Hint.request_queue[2] = ret.client
    /\ ret.wait_time = SecondsPerClient
    /\ raymond.current_holder # None
    /\ Len(raymond.queue) = 2

\* ----------------------------------------------------------------------
\* C12  release_token called by a client that is not the holder returns
\* (False, None) and changes nothing: no cooldown is recorded for it.
\* ----------------------------------------------------------------------
ReleaseByNonHolderRefused ==
    [][ \A c \in Clients :
          (ReleaseToken(c) /\ Hint.token_holder # c) =>
             /\ ret'.op = "release" /\ ret'.client = c
             /\ ~ret'.success
             /\ ret'.next_holder = None
             /\ tm' = tm
      ]_vars

\* A queued client has tried to release the token another client holds.
ReleaseByNonHolderWitness ==
    /\ ret.op = "release" /\ ~ret.success
    /\ ret.client \in Members(Hint.request_queue)
    /\ Hint.token_holder # None

\* ----------------------------------------------------------------------
\* C13  A request of a client that is not in cooldown, not the holder and
\* not queued: with the token free and the queue empty the client becomes
\* the holder and (True, 0, 0) is returned; otherwise it is appended to
\* the queue and the returned position is its 0-based index there, the
\* length of the queue before the call.
\* ----------------------------------------------------------------------
FreshRequest(c) ==
    /\ ~Cooling(Hint, c, now)
    /\ Hint.token_holder # c
    /\ c \notin Members(Hint.request_queue)

FreshRequestGrantsOrAppends ==
    [][ \A c \in Clients :
          (RequestToken(c) /\ FreshRequest(c)) =>
             IF Hint.token_holder = None /\ Hint.request_queue = <<>>
             THEN /\ Hint'.token_holder = c
                  /\ Hint'.request_queue = <<>>
                  /\ ret'.granted
                  /\ ret'.position = 0 /\ ret'.wait_time = 0
             ELSE /\ Hint'.token_holder = Hint.token_holder
                  /\ Hint'.request_queue = Hint.request_queue \o <<c>>
                  /\ ~ret'.granted
                  /\ ret'.position = Len(Hint.request_queue)
                  /\ Hint'.request_queue[ret'.position + 1] = c
      ]_vars

\* A client whose cooldown has run out was appended behind a queued one.
FreshRequestWitness ==
    /\ ret.op = "request" /\ ~ret.granted
    /\ ret.position = 1
    /\ Hint.request_queue[2] = ret.client
    /\ now >= CooldownDuration
    /\ Hint.cooldowns = EmptyDict

\* ----------------------------------------------------------------------
\* TimeWarpManager
\* ----------------------------------------------------------------------
\* The client has a stored session whose end instant lies ahead.
HasLiveSession(c) ==
    /\ c \in DOMAIN tw.active_warps
    /\ now < tw.active_warps[c][2]

\* The stored session of a client has expired: end instant reached.
SessionExpired(c) ==
    /\ c \in DOMAIN tw.active_warps
    /\ now >= tw.active_warps[c][2]

\* C14: every public operation and every timer callback returns and
\* releases the guard of its manager; no thread ever waits forever on the
\* guard, so the guard is free whenever no call is running.
EveryCallReleasesGuard == tw_lock = "free"

\* C15: is_time_warp_active(client) with a stored session whose end has
\* passed returns (False, 0), and on return the session is removed and the
\* cooldown of the client is stamped.
IsActiveOnExpiredDeactivates ==
    [][\A c \in Clients :
         IsTimeWarpActive(c) /\ SessionExpired(c)
         => /\ ret'.returned
            /\ ~ret'.active
            /\ ret'.remaining = 0
            /\ c \notin DOMAIN tw'.active_warps
            /\ c \in DOMAIN tw'.cooldowns
            /\ tw'.cooldowns[c] = now + WarpCooldown]_vars

\* C16: a timer that runs while the stored end instant equals the one it
\* was scheduled with removes the session and stamps the cooldown; a timer
\* that finds no session or another end instant changes nothing.
TimerAutoDeactivation ==
    [][\A timer \in tw_timers :
         AutoDeactivateTimeWarp(timer)
         => LET c == timer.client_id
            IN  IF /\ c \in DOMAIN tw.active_warps
                   /\ tw.active_warps[c][2] = timer.expected_end_time
                THEN /\ ret'.returned
                     /\ c \notin DOMAIN tw'.active_warps
                     /\ c \in DOMAIN tw'.cooldowns
                     /\ tw'.cooldowns[c] = now + WarpCooldown
                ELSE /\ ret'.returned
                     /\ tw' = tw]_vars

\* C17: activate_time_warp(client) for a client whose session is live
\* returns success with the remaining time of that session, leaves the
\* stored (start, end) alone, starts no timer and leaves the cooldowns
\* alone.
ActivateOnLiveSession ==
    [][\A c \in Clients :
         ActivateTimeWarp(c) /\ HasLiveSession(c)
         => /\ ret'.returned
            /\ ret'.success
            /\ ret'.remaining = tw.active_warps[c][2] - now
            /\ tw'.active_warps = tw.active_warps
            /\ tw_timers' = tw_timers
            /\ tw'.cooldowns = tw.cooldowns]_vars

\* An activate of a live session has returned, later than the session
\* began, and the timer of the session is still the only one of the client.
ActivateOnLiveSessionWitness ==
    /\ ret.op = "activate_time_warp"
    /\ ret.message = "Already active"
    /\ ret.remaining < WarpDuration
    /\ HasLiveSession(ret.client)
    /\ Cardinality({timer \in tw_timers : timer.client_id = ret.client}) = 1

\* The session and the cooldown entry of a client, as sets: empty when the
\* client has none.
WarpEntry(s, c) ==
    [session |-> IF c \in DOMAIN s.active_warps
                 THEN {s.active_warps[c]} ELSE {},
     cooldown |-> IF c \in DOMAIN s.cooldowns
                  THEN {s.cooldowns[c]} ELSE {}]

\* A step of the manager made for client x.
WarpStepFor(x) ==
    \/ ActivateTimeWarp(x)
    \/ DeactivateTimeWarp(x)
    \/ IsTimeWarpActive(x)
    \/ \E timer \in tw_timers :
          timer.client_id = x /\ AutoDeactivateTimeWarp(timer)

\* C18: sessions are per client.  A call or timer callback for client x
\* never changes the session or the cooldown entry of another client, and
\* an activate of a client that is not cooling succeeds whatever sessions
\* the other clients have.
SessionsIndependent ==
    [][\A x \in Clients :
         /\ WarpStepFor(x)
            => \A y \in Clients \ {x} : WarpEntry(tw', y) = WarpEntry(tw, y)
         /\ ActivateTimeWarp(x)
              /\ ~(x \in DOMAIN tw.cooldowns /\ now < tw.cooldowns[x])
            => ret'.success /\ x \in DOMAIN tw'.active_warps]_vars

\* Client A has deactivated its session while B and C both have live
\* sessions, begun at different instants.
SessionsIndependentWitness ==
    /\ ret.op = "deactivate_time_warp"
    /\ ret.client = "A"
    /\ ret.success
    /\ HasLiveSession("B")
    /\ HasLiveSession("C")
    /\ tw.active_warps["B"] # tw.active_warps["C"]
    /\ "A" \in DOMAIN tw.cooldowns

\* ----------------------------------------------------------------------
\* RicartAgrawala (timer-based)
\* ----------------------------------------------------------------------
\* The grant current in a state: its client and the instant it began.  No
\* client is granted the section twice at one instant, so the pair names
\* the grant whatever timestamps the requests carried.
CurrentGrant == <<ra.in_critical_section, ra.cs_start_time>>

\* The grant a timer was scheduled for.
GrantOf(timer) == <<timer.client_id, timer.due - CsDuration>>

\* C19: an auto-release callback that changes anything ends the grant it
\* was scheduled for, and that grant only; run when another grant is
\* current, or none, it changes nothing.  A callback whose own grant is
\* still current does release it.
StaleTimerGuard ==
    [][\A timer \in ra_timers :
         RicartAutoRelease(timer)
         => IF CurrentGrant = GrantOf(timer)
            THEN ra'.in_critical_section = None
            ELSE ra' = ra]_vars

\* A timer has just run while its client holds the section under a later
\* grant, and the client still holds it.
StaleTimerGuardWitness ==
    /\ ret.op = "_auto_release_critical_section"
    /\ ra.in_critical_section = ret.client
    /\ ra.cs_start_time >= CsDuration

\* C20: every step that ends a grant stamps the cooldown of its holder at
\* now + 120, and a request of a client whose cooldown has not expired is
\* refused with reason "cooldown" and the remaining time, and changes
\* nothing.
ReleaseStampsCooldown ==
    [][/\ ( /\ ra.in_critical_section # None
            /\ <<ra'.in_critical_section, ra'.cs_timestamp>>
                 # <<ra.in_critical_section, ra.cs_timestamp>> )
          => /\ ra.in_critical_section \in DOMAIN ra'.cooldowns
             /\ ra'.cooldowns[ra.in_critical_section] = now + CsCooldown
       /\ \A c \in Clients :
            /\ RicartRequest(c)
            /\ c \in DOMAIN ra.cooldowns
            /\ now < ra.cooldowns[c]
            => /\ ~ret'.success
               /\ ret'.wait_reason = "cooldown"
               /\ ret'.remaining = ra.cooldowns[c] - now
               /\ ra' = ra]_vars

\* A client released by the request of another client, which now holds
\* the section, has asked again and was refused for its cooldown.
ReleaseStampsCooldownWitness ==
    /\ ret.op = "request_critical_section"
    /\ ret.wait_reason = "cooldown"
    /\ ra.in_critical_section \notin {None, ret.client}
    /\ ra.cs_start_time > CsDuration
    /\ ra.cooldowns[ret.client] = ra.cs_start_time + CsCooldown

\* C21: every grant of the critical section is followed by a state in
\* which that grant no longer holds the section, whether or not any
\* client calls anything afterwards.  A grant is named by the timestamp
\* stored with it in cs_timestamp.
GrantEventuallyEnds ==
    \A timestamp \in 1..MaxLiveTimestamp :
        (ra.cs_timestamp = timestamp) ~> (ra.cs_timestamp # timestamp)

\* The timer of a grant has run after its delay and released the section:
\* the section is free and the cooldown of the holder starts now.
GrantEventuallyEndsWitness ==
    /\ ret.op = "_auto_release_critical_section"
    /\ ra.in_critical_section = None
    /\ ret.client \in DOMAIN ra.cooldowns
    /\ ra.cooldowns[ret.client] = now + CsCooldown
    /\ now >= CsDuration

\* ----------------------------------------------------------------------
\* RicartAgrawala (simple) and LeaderboardToken
\* ----------------------------------------------------------------------
\* The request returned (True, None, duration) and made p the holder of
\* a session that starts now.
SimpleGranted(p) ==
    /\ ret'.raised = None
    /\ ret'.success
    /\ ret'.holder = None
    /\ ret'.remaining = SimpleDuration
    /\ simple' = [in_critical_section |-> TRUE, current_holder |-> p,
                  start_time |-> now]

\* C22: request of the simple RicartAgrawala: occupied and start +
\* duration reached, the stale holder is released and the requester is
\* granted (True, None, duration); occupied and live, it returns (False,
\* holder, remaining) and changes nothing; free, the requester is granted.
\* release succeeds for the current holder only and otherwise changes
\* nothing.
SimpleRequestContract ==
    [][\A p \in Clients :
         /\ SimpleRequest(p)
            => IF /\ simple.in_critical_section
                  /\ now < simple.start_time + SimpleDuration
               THEN /\ ret'.raised = None
                    /\ ~ret'.success
                    /\ ret'.holder = simple.current_holder
                    /\ ret'.remaining
                         = (simple.start_time + SimpleDuration) - now
                    /\ simple' = simple
               ELSE SimpleGranted(p)
         /\ SimpleRelease(p)
            => IF simple.in_critical_section /\ simple.current_holder = p
               THEN /\ ret'.success
                    /\ ~simple'.in_critical_section
                    /\ simple'.current_holder = None
               ELSE /\ ~ret'.success
                    /\ simple' = simple]_vars

\* C24: release_token of the LeaderboardToken by the holder stamps the
\* releaser (its requests are refused for the next 30 time units) and
\* hands the token to the head of the queue, whoever it is and whenever
\* it last used the token; with an empty queue the token becomes free.  A
\* release by anyone else is refused and changes nothing.
LeaderboardReleaseContract ==
    [][\A p \in Clients :
         /\ LeaderboardRelease(p)
            => IF lb.current_holder = p
               THEN /\ ret'.success
                    /\ lb'.last_used = DictSet(lb.last_used, p, now)
                    /\ lb'.has_token = lb.has_token
                    /\ IF lb.queue # <<>>
                       THEN /\ lb'.current_holder = Head(lb.queue)
                            /\ lb'.queue = Tail(lb.queue)
                       ELSE /\ lb'.current_holder = None
                            /\ lb'.queue = <<>>
               ELSE /\ ~ret'.success
                    /\ lb' = lb
         /\ ( /\ LeaderboardRequest(p)
              /\ p \in DOMAIN lb.last_used
              /\ now < lb.last_used[p] + CooldownPeriod )
            => /\ ~ret'.success
               /\ ret'.message = "Cooldown"
               /\ ret'.number = (lb.last_used[p] + CooldownPeriod) - now
               /\ lb' = lb]_vars

\* A release has handed the token to a queued client that is itself
\* within its cooldown.
LeaderboardReleaseWitness ==
    /\ ret.op = "lb_release_token"
    /\ ret.success
    /\ lb.current_holder # None
    /\ lb.current_holder \in DOMAIN lb.last_used
    /\ now < lb.last_used[lb.current_holder] + CooldownPeriod

\* C23: of the clients that call request concurrently on a free resource
\* at most one is told "granted", and the recorded holder is that client:
\* a client that was told "granted" and has not released since is the
\* recorded holder, so no two clients are in that position at once.
ConcurrentRequestsGrantOne ==
    /\ \A a \in Clients : lb_granted[a] => lb.current_holder = a
    /\ \A a, b \in Clients : lb_granted[a] /\ lb_granted[b] => a = b

\* ----------------------------------------------------------------------
\* RaymondServer
\* ----------------------------------------------------------------------
\* Client c is within an unexpired cooldown of RaymondServer state s.
RaymondCooling(s, c) ==
    /\ c \in DOMAIN s.cooldowns
    /\ now < s.cooldowns[c]

\* C25: after a successful release of the RaymondServer the new holder,
\* if there is one, is not within an unexpired cooldown, and a queued
\* client that is within one is neither the new holder nor queued any
\* longer.
RaymondReleaseSkipsCooling ==
    [][\A c \in Clients :
         RaymondReleaseToken(c) /\ raymond.current_holder = c
         => /\ ret'.success
            /\ ret'.next_holder = raymond'.current_holder
            /\ raymond'.current_holder # None
               => ~RaymondCooling(raymond', raymond'.current_holder)
            /\ \A q \in Members(raymond.queue) :
                  RaymondCooling(raymond, q)
                  => /\ raymond'.current_holder # q
                     /\ q \notin Members(raymond'.queue)]_vars

\* A release has passed the token to a queued client while the releaser
\* entered its cooldown.
RaymondReleaseWitness ==
    /\ ret.op = "raymond_release"
    /\ ret.success
    /\ ret.next_holder # None
    /\ raymond.current_holder = ret.next_holder
    /\ RaymondCooling(raymond, ret.client)

\* ----------------------------------------------------------------------
\* LogicalClock
\* ----------------------------------------------------------------------
\* C26: sync(r) sets the counter to max(previous, r) + 1 and returns it,
\* which is greater than both; increment() raises the counter by exactly
\* 1 and returns it; no call ever lowers the counter.
ClockContract ==
    [][/\ \A r \in 0..MaxCounter :
            ClockSync(r)
            => /\ lc' = (IF lc >= r THEN lc ELSE r) + 1
               /\ ret'.value = lc'
               /\ lc' > lc
               /\ lc' > r
       /\ ClockIncrement => lc' = lc + 1 /\ ret'.value = lc'
       /\ lc' >= lc]_vars

\* A sync with a received timestamp ahead of the counter has pulled the
\* counter past it, after the counter had already advanced.
ClockContractWitness ==
    /\ ret.op = "sync"
    /\ ret.value = lc
    /\ ret.received_time > 1
    /\ lc = ret.received_time + 1

\* The threads whose call has returned.
Returned == {t \in Threads : lc_pc[t] = "done"}

\* C27: no update of concurrent callers is lost: the values returned by
\* the calls are pairwise distinct, and when all the calls were
\* increment() the counter ends at its initial value, 0, plus the number
\* of calls.
NoLostUpdate ==
    /\ \A t, u \in Returned : t # u => lc_ret[t] # lc_ret[u]
    /\ ( /\ Returned = Threads
         /\ \A t \in Threads : lc_op[t].name = "increment" )
       => lc = Cardinality(Threads)

\* All threads have returned from increment().
NoLostUpdateWitness ==
    /\ Returned = Threads
    /\ \A t \in Threads : lc_op[t].name = "increment"
    /\ {lc_ret[t] : t \in Threads} = 1..Cardinality(Threads)

\* ----------------------------------------------------------------------
\* Offset estimators
\* ----------------------------------------------------------------------
\* What a call of an estimator in state s with instants t1..t4 must do to
\* lead to state s1 and return ret'.offset: with delay = (t4 - t1) -
\* (t3 - t2), overwrite the offset with ((t2 - t1) + (t3 - t4)) / 2 when
\* 0 < delay < 5, and otherwise leave offset and reference instant alone;
\* the stored offset is returned.
EstimateAsClaimed(s, s1, t1, t2, t3, t4) ==
    LET delay == (t4 - t1) - (t3 - t2)
    IN  /\ IF 0 < delay /\ delay < 5
           THEN /\ s1.offset.twice = (t2 - t1) + (t3 - t4)
                /\ s1.reference_timestamp = now
           ELSE /\ s1.offset = s.offset
                /\ s1.reference_timestamp = s.reference_timestamp
        /\ ret'.offset = s1.offset

\* C28: synchronize(t1, t2, t3, t4) of the server and
\* process_sync_response(t2, t3) of the client (t1 the instant of the
\* request, t4 the instant of the call) accept the estimate exactly when
\* 0 < delay < 5.  A step of SpecNtp that leaves the
\* clock alone is a call, made with each of the instants that lead to its
\* new state.
OffsetAcceptedIffReasonable ==
    [][/\ ret'.op = "synchronize" /\ now' = now
          => \A x \in Exchanges :
               ntp' = NetworkTimeProtocol_synchronize(
                          ntp, x.t1, x.t2, x.t3, x.t4, now).state
               => EstimateAsClaimed(ntp, ntp', x.t1, x.t2, x.t3, x.t4)
       /\ ret'.op = "process_sync_response" /\ now' = now
          => \A x \in Answers :
               ntp_client' = NetworkTimeClient_process_sync_response(
                                 ntp_client, x.t2, x.t3, now).state
               => /\ EstimateAsClaimed(ntp_client, ntp_client',
                                       ntp_client.last_sync_time,
                                       x.t2, x.t3, now)
                  /\ ntp_client'.last_sync_time
                       = ntp_client.last_sync_time]_vars

\* The server holds an accepted half-integer offset taken at a later
\* instant, and the last call was refused and returned that old offset.
OffsetAcceptedWitness ==
    /\ ret.op = "synchronize"
    /\ ret.offset = ntp.offset
    /\ ntp.offset.twice = -3
    /\ 0 < ntp.reference_timestamp
    /\ ntp.reference_timestamp < now

\* ----------------------------------------------------------------------
\* C29  stop() is idempotent and safe when idle: called on a detector
\* that holds no thread (never started, or stopped before), it returns
\* and changes neither a field of the detector, nor a loop thread, nor
\* either token manager.
\* ----------------------------------------------------------------------
StopWhenIdleChangesNothing ==
    [][/\ deadlock_thread = NoThread
       /\ DetectorStopBegin
       => /\ ret'.op = "stop"
          /\ call_pc' = "idle"
          /\ UNCHANGED <<deadlock_thread, stop_event, loop_pc, loop_hint,
                         tm>>]_vars

\* stop() has returned on a detector that was never started.
StopWhenIdleWitness ==
    /\ ret.op = "stop"
    /\ Born = {}
    /\ deadlock_thread = NoThread
    /\ ~stop_event

\* stop() has returned and start() was not called since: the event is set
\* by stop() only and cleared by start() only.
StopReturned ==
    /\ call_pc = "idle"
    /\ deadlock_thread = NoThread
    /\ stop_event

\* The thread i is inside check_for_deadlocks.
InCheck(i) == loop_pc[i] \in {"check_43", "check_44", "resolve_72"}

\* The thread i runs its loop.
LoopAlive(i) == loop_pc[i] \notin {"unborn", "exited"}

\* ----------------------------------------------------------------------
\* C30  as stated: once stop() has returned, and until start() is called
\* again, no loop thread takes a step of a deadlock check or forces a
\* release.
\* ----------------------------------------------------------------------
NoCheckAfterStopReturned ==
    [][StopReturned
       => \A i \in LoopIds : InCheck(i) => loop_pc'[i] = loop_pc[i]]_vars

\* ----------------------------------------------------------------------
\* C30  as the code has it: after the stop signal every loop thread
\* exits, unless start() clears the signal first; a thread that
\* evaluates its loop test under the signal starts no check, and a
\* thread that has exited does nothing more.  The wait of stop() is
\* bounded, so a check under way may end after stop() has returned.
\* ----------------------------------------------------------------------
LoopExitsAfterStopSignal ==
    /\ \A i \in LoopIds :
         (stop_event /\ LoopAlive(i))
            ~> (loop_pc[i] = "exited" \/ ~stop_event)
    /\ [][\A i \in LoopIds :
            /\ stop_event /\ loop_pc[i] = "test"
                  => loop_pc'[i] \in {"test", "exited"}
            /\ loop_pc[i] = "exited" => loop_pc'[i] = "exited"]_vars

\* stop() has returned on a running detector and its loop has exited
\* under the signal.
LoopExitsWitness ==
    /\ StopReturned
    /\ ret.op = "stop"
    /\ \E i \in LoopIds : loop_pc[i] = "exited"

\* ----------------------------------------------------------------------
\* C31  In every reachable state of the TokenManager with a holder,
\* force_release_token() and release_token(holder) yield the same next
\* holder, the same queue and the same pending set; release_token
\* records the cooldown of the previous holder in addition and
\* force_release_token leaves the cooldowns as they are.
\* ----------------------------------------------------------------------
ForceReleaseMatchesRelease ==
    Hint.token_holder # None
    => LET forced == TokenManager_force_release_token(Hint)
           released == TokenManager_release_token(Hint, Hint.token_holder,
                                                  now)
       IN  /\ released.success
           /\ forced.previous_holder = Hint.token_holder
           /\ forced.next_holder = released.next_holder
           /\ forced.state.token_holder = released.state.token_holder
           /\ forced.state.request_queue = released.state.request_queue
           /\ forced.state.pending_requests
                = released.state.pending_requests
           /\ forced.state.cooldowns = Hint.cooldowns
           /\ released.state.cooldowns
                = DictSet(Hint.cooldowns, Hint.token_holder,
                          now + CooldownDuration)

\* A forced release has taken the token from a holder and promoted the
\* queued client, which holds it now, while the third client is cooling.
ForceReleaseMatchesWitness ==
    /\ ret.op = "force_release"
    /\ ret.previous_holder # None
    /\ ret.next_holder = Hint.token_holder
    /\ Hint.token_holder # None
    /\ DOMAIN Hint.cooldowns # {}

\* ----------------------------------------------------------------------
\* C33  Work conservation: in every reachable state of the TokenManager,
\* of the RaymondServer and of the LeaderboardToken (calls one after the
\* other), a token without a holder has an empty wait queue.
\* ----------------------------------------------------------------------
WorkConservation ==
    /\ Hint.token_holder = None => Hint.request_queue = <<>>
    /\ raymond.current_holder = None => raymond.queue = <<>>
    /\ lb.current_holder = None => lb.queue = <<>>

\* The holder of the TokenManager released the token with nobody queued
\* and the token is free.
WorkConservationWitness ==
    /\ ret.op = "release"
    /\ ret.success
    /\ ret.next_holder = None
    /\ Hint.token_holder = None
    /\ Hint.request_queue = <<>>

\* The client c has a cooldown entry of the hint manager that has not
\* expired.
HintCooling(c) == c \in DOMAIN Hint.cooldowns /\ now < Hint.cooldowns[c]

\* The holder, if any, as a set.
HolderSet(s) == IF s.token_holder = None THEN {} ELSE {s.token_holder}

\* ----------------------------------------------------------------------
\* C34  In every reachable state of the TokenManager (time does not go
\* back) neither a queued client nor the holder has an unexpired
\* cooldown entry, and the pending set is the holder together with the
\* members of the queue; so a release takes exactly the head off the
\* queue and its cooldown-skipping branch drops nobody.
\* ----------------------------------------------------------------------
NoCoolingWaiter ==
    /\ \A c \in Members(Hint.request_queue) \cup HolderSet(Hint) :
         ~HintCooling(c)
    /\ Hint.pending_requests
         = HolderSet(Hint) \cup Members(Hint.request_queue)
    /\ Hint.token_holder # None /\ Hint.request_queue # <<>>
       => LET released == TokenManager_release_token(
                              Hint, Hint.token_holder, now)
          IN  /\ released.next_holder = Head(Hint.request_queue)
              /\ released.state.request_queue = Tail(Hint.request_queue)

\* After time has passed one client is cooling, another holds the token
\* and the third has requested and waits in the queue.
NoCoolingWaiterWitness ==
    /\ ret.op = "request"
    /\ now > 0
    /\ Hint.token_holder # None
    /\ Len(Hint.request_queue) = 1
    /\ \E c \in Clients : HintCooling(c)

\* a stands before b in the queue q.
Before(q, a, b) ==
    /\ a \in Members(q)
    /\ b \in Members(q)
    /\ QueueIndex(q, a) < QueueIndex(q, b)

\* ----------------------------------------------------------------------
\* C35  FIFO grant order of the TokenManager.  A client appended to the
\* queue stands behind every client already waiting; two waiting clients
\* keep their order, the first leaving the queue only as the new holder;
\* and no step makes a client the holder that has another before it in
\* the queue.  So of two queued clients the one appended first is
\* promoted first, by release and by force_release.
\* ----------------------------------------------------------------------
FifoGrantOrder ==
    [][\A a, b \in Clients :
         /\ a \in Members(Hint.request_queue)
            /\ b \notin Members(Hint.request_queue)
            /\ b \in Members(Hint'.request_queue)
            => Before(Hint'.request_queue, a, b)
         /\ Before(Hint.request_queue, a, b)
            => /\ b \in Members(Hint'.request_queue)
                  => a = Hint'.token_holder
                     \/ Before(Hint'.request_queue, a, b)
               /\ Hint'.token_holder # b]_vars

\* A release has promoted the first of two queued clients; the second
\* still waits.
FifoGrantOrderWitness ==
    /\ ret.op = "release"
    /\ ret.success
    /\ ret.next_holder = Hint.token_holder
    /\ Hint.token_holder # None
    /\ Len(Hint.request_queue) = 1

\* ----------------------------------------------------------------------
\* C36  Starvation freedom of the TokenManager: when every holder
\* eventually releases the token, every client in the queue eventually
\* becomes the holder, whatever the other clients request meanwhile.
\* ----------------------------------------------------------------------
QueuedEventuallyHolds ==
    \A c \in Clients :
        (c \in Members(Hint.request_queue)) ~> (Hint.token_holder = c)

\* The client that queued last, behind another one, holds the token after
\* two releases.
QueuedEventuallyHoldsWitness ==
    /\ ret.op = "release"
    /\ ret.next_holder = Hint.token_holder
    /\ Hint.token_holder # None
    /\ Hint.request_queue = <<>>
    /\ Cardinality(DOMAIN Hint.cooldowns) = 2

\* ----------------------------------------------------------------------
\* C37  LeaderboardToken: in every reachable state the holder is not in
\* the queue and is not within its own cooldown of 30.
\* ----------------------------------------------------------------------
LeaderboardHolderNotQueued ==
    lb.current_holder # None
    => /\ lb.current_holder \notin Members(lb.queue)
       /\ ~RecentlyUsed(lb, lb.current_holder, now)

\* ----------------------------------------------------------------------
\* C38  Two successive sessions of a client of the TimeWarpManager are
\* separated by a cooldown: a call of activate_time_warp that stores a
\* new session finds no session of the client stored (the earlier one
\* was ended by a deactivation, which stamped a cooldown), and any
\* cooldown of the client has expired.
\* ----------------------------------------------------------------------
SessionsSeparatedByCooldown ==
    [][\A c \in Clients :
         /\ ActivateTimeWarp(c)
         /\ ret'.message = "Time Warp activated"
         => /\ c \notin DOMAIN tw.active_warps
            /\ c \in DOMAIN tw.cooldowns => now >= tw.cooldowns[c]]_vars

\* The loop threads that run.
RunningLoops == {i \in LoopIds : LoopAlive(i)}

\* ----------------------------------------------------------------------
\* C32  Lifecycle of the DeadlockDetector: whatever the sequence of
\* start() and stop() calls, at most one background loop runs at any
\* time.
\* ----------------------------------------------------------------------
AtMostOneLoop == Cardinality(RunningLoops) <= 1

\* ----------------------------------------------------------------------
\* C39  Deadlock resolution makes progress: unless new requests keep
\* arriving, every circular wait is followed by a state without one
\* after finitely many runs of check_for_deadlocks; and a resolution made
\* while the circular wait holds takes exactly the head off the hint
\* queue, which is then one shorter.
\* ----------------------------------------------------------------------
ResolutionMakesProgress ==
    /\ ([]<><<NewRequest>>_vars) \/ (CircularWait ~> ~CircularWait)
    /\ [][ResolveDeadlock /\ CircularWait
          => /\ Hint'.token_holder = Head(Hint.request_queue)
             /\ Hint'.request_queue = Tail(Hint.request_queue)]_vars

\* A resolution has promoted a client that waits for the skip token too:
\* a new circular wait, with a shorter hint queue.
ResolutionMakesProgressWitness ==
    /\ ret.op = "check_for_deadlocks"
    /\ ret.found
    /\ det_pc = "idle"
    /\ CircularWait
    /\ Len(Hint.request_queue) = 1

\* ----------------------------------------------------------------------
\* C40  No false deadlock under concurrency: when check_for_deadlocks
\* declares a deadlock, the circular wait held at some instant between
\* its two snapshots.
\* ----------------------------------------------------------------------
NoFalseDeadlock == det_pc = "resolve" => cw_seen

====
